---------------------------- MODULE Spec2Model ----------------------------
(***************************************************************************)
(* A model of paperfetch's candidate resolution pipeline                   *)
(* (src/paperfetch/cli.py, select.py, title_llm.py, rerank_llm.py).        *)
(*                                                                         *)
(* Python strings are sequences of one-character strings, so that          *)
(* str.strip, str.lower, re.sub and the `in` test are computed character   *)
(* by character.  None, "" and 0 are all falsy in the code's               *)
(* `x.get(k) or default` idiom; a missing text field is the empty          *)
(* sequence and a missing year or count is 0.                              *)
(***************************************************************************)
EXTENDS Integers, Sequences, FiniteSets, TLC

VARIABLES
    pc,                     \* position of the operation under check
    keyword,                \* run(keyword=...), score_paper(keyword, ...)
    papers,                 \* the list[dict] handed to the function
    proposed_titles,        \* TitleProposal.titles
    validation_candidates,  \* --llm-candidates
    primary,                \* the selected record handed to the backup matcher
    returned,               \* what the call returned or raised
    payload,                \* the JSON object handed to _validate_payload
    client_cfg,             \* LLMClientConfig
    network,                \* what the LLM endpoint answers to each requests.post, in order;
                            \* for a search alone, what the providers answer to each query
    requests_sent,          \* the request payloads posted so far, in order
    args,                   \* run()'s selector, provider, download_pdf, pdf_arxiv_fallback,
                            \* min_title_similarity
    search_source,          \* run()'s search_source; "" until a search has returned
    title_proposal,         \* run()'s title_proposal
    pool,                   \* run()'s pool
    pool_selection,         \* run()'s pool_selection
    selected,               \* run()'s selected
    pdf,                    \* run()'s pdf_path (is it set) and pdf_error ("" for None)
    written,                \* the PDF files saved and the citations appended, in order
    calls,                  \* the functions run() has called, in order
    queried,                \* the backup provider's functions the enrichment has called,
                            \* in order
    caught,                 \* the exceptions the except clauses below run() have caught,
                            \* in order, each with the function that caught it
    files,                  \* the files of the working directory: name to content
    stdout,                 \* the lines main() has printed
    exit_status,            \* the exit status of the process, -1 while it runs
    rate_lock,              \* s2._rate_lock: the thread that holds it, 0 when free
    last_request_at,        \* s2._last_request_at
    monotonic,              \* time.monotonic(), in ticks
    locals,                 \* each thread's now and wait in _respect_rate_limit
    s2_requests,            \* the client.get calls of _s2_get: thread and time, in order
    heap                    \* the dicts and lists allocated: an object's reference is its
                            \* position; empty where values alone are followed

\* the state of an LLM call
llm_vars == <<payload, client_cfg, network, requests_sent>>

\* the state of a run
run_vars == <<args, search_source, title_proposal, pool, pool_selection, selected, pdf,
              written, calls, queried, caught>>

\* the files and the output of the process
io_vars == <<files, stdout, exit_status>>

\* the state of the Semantic Scholar rate limiter
s2_vars == <<rate_lock, last_request_at, monotonic, locals, s2_requests>>

vars == <<pc, keyword, papers, proposed_titles, validation_candidates, primary, returned,
          llm_vars, run_vars, io_vars, s2_vars, heap>>

\* no file, no output
IoIdle ==
    /\ files = <<>>
    /\ stdout = <<>>
    /\ exit_status = -1

\* the module s2 as imported: _last_request_at = 0.0, the lock free
S2Idle ==
    /\ rate_lock = 0
    /\ last_request_at = 0
    /\ monotonic = 0
    /\ locals = <<>>
    /\ s2_requests = <<>>

(***************************************************************************)
(* Bounds of the model.                                                    *)
(***************************************************************************)

MaxPapers == 3

MaxSelect == 3

MaxPoolPapers == 3

MaxCandidates == 3

MaxBackup == 2

(***************************************************************************)
(* Characters.                                                             *)
(***************************************************************************)

UpperChars == <<"A","B","C","D","E","F","G","H","I","J","K","L","M","N","O","P","Q","R","S","T","U","V","W","X","Y","Z">>

LowerChars == <<"a","b","c","d","e","f","g","h","i","j","k","l","m","n","o","p","q","r","s","t","u","v","w","x","y","z">>

DigitChars == <<"0","1","2","3","4","5","6","7","8","9">>

Range(s) == {s[i] : i \in DOMAIN s}

(***************************************************************************)
(* Texts the checks draw their inputs from.                                *)
(***************************************************************************)

T_MaskRCNN == <<"M","a","s","k"," ","R","-","C","N","N">>

T_maskrcnn_sp == <<"m","a","s","k"," ","r","-","c","n","n"," ">>

T_mask_r_cnn == <<"m","a","s","k"," ","r"," ","c","n","n">>

Id_W1 == <<"W","1">>

Id_S2 == <<"S","2">>

K_DETR == <<"D","E","T","R">>

T_DETR == <<"D","E","T","R",":"," ","E","n","d","-","t","o","-","E","n","d"," ","O","b","j","e","c","t"," ","D","e","t","e","c","t","i","o","n"," ","w","i","t","h"," ","T","r","a","n","s","f","o","r","m","e","r","s">>

T_DN_DETR == <<"D","N","-","D","E","T","R",":"," ","A","c","c","e","l","e","r","a","t","e"," ","D","E","T","R"," ","T","r","a","i","n","i","n","g">>

V_arXiv == <<"a","r","X","i","v">>

Doi_x == <<"1","0",".","1","0","0","7","/","x">>

K_etr == <<"e","t","r">>

K_loss_focal == <<"l","o","s","s"," ","f","o","c","a","l">>

K_focal_DETR == <<"f","o","c","a","l"," ","D","E","T","R">>

Arxiv_1706 == <<"1","7","0","6",".","0","3","7","6","2">>

Doi_arxiv == <<"1","0",".","4","8","5","5","0","/","a","r","X","i","v",".","1","7","0","6",".","0","3","7","6","2">>

K_focal == <<"f","o","c","a","l"," ","l","o","s","s">>

T_Focal == <<"F","o","c","a","l"," ","L","o","s","s"," ","f","o","r"," ","D","e","n","s","e"," ","O","b","j","e","c","t"," ","D","e","t","e","c","t","i","o","n">>

\* the same title in another provider's spelling
T_FOCAL == <<"F","O","C","A","L"," "," ","L","O","S","S"," ","f","o","r"," ","D","e","n","s","e"," ","O","b","j","e","c","t","-","D","e","t","e","c","t","i","o","n">>

T_FocalSurvey == <<"F","o","c","a","l"," ","L","o","s","s",":"," ","A"," ","S","u","r","v","e","y">>

T_ResNet == <<"D","e","e","p"," ","R","e","s","i","d","u","a","l"," ","L","e","a","r","n","i","n","g">>

\* a title without a letter or digit
T_punct == <<"?","!">>

T_MaskExt == <<"M","a","s","k"," ","R","-","C","N","N"," ","E","x","t","e","n","d","e","d">>

\* Doi_x as another provider spells it
Doi_X == <<"1","0",".","1","0","0","7","/","X">>

T_Attention == <<"A","t","t","e","n","t","i","o","n"," ","I","s"," ","A","l","l"," ","Y","o","u"," ","N","e","e","d">>

T_Attention_padded == <<" ","A","t","t","e","n","t","i","o","n"," "," ","I","s"," ","A","l","l"," ","Y","o","u"," ","N","e","e","d"," ">>

T_attention_lower == <<"a","t","t","e","n","t","i","o","n"," ","i","s"," ","a","l","l"," ","y","o","u"," ","n","e","e","d">>

KEY_titles == <<"t","i","t","l","e","s">>

KEY_reason == <<"r","e","a","s","o","n">>

KEY_confidence == <<"c","o","n","f","i","d","e","n","c","e">>

R_seminal_padded == <<" ","s","e","m","i","n","a","l"," ">>

N_half == <<"0",".","5">>

N_abc == <<"a","b","c">>

N_nan == <<"n","a","n">>

N_one_padded == <<" ","1"," ">>

KEY_choices == <<"c","h","o","i","c","e","s">>

KEY_message == <<"m","e","s","s","a","g","e">>

KEY_content == <<"c","o","n","t","e","n","t">>

KEY_reasoning_content == <<"r","e","a","s","o","n","i","n","g","_","c","o","n","t","e","n","t">>

KEY_selected_candidate_id == <<"s","e","l","e","c","t","e","d","_","c","a","n","d","i","d","a","t","e","_","i","d">>

R_truncation == <<"L","L","M"," ","J","S","O","N"," ","o","u","t","p","u","t"," ","w","a","s"," ","t","r","u","n","c","a","t","e","d",";"," ","e","x","t","r","a","c","t","e","d"," ","c","a","n","d","i","d","a","t","e"," ","t","i","t","l","e","s"," ","f","r","o","m"," ","r","e","a","s","o","n","i","n","g"," ","c","o","n","t","e","n","t",".">>

LT_valid == <<"{","\"","t","i","t","l","e","s","\"",":"," ","[","\"","A","t","t","e","n","t","i","o","n"," ","I","s"," ","A","l","l"," ","Y","o","u"," ","N","e","e","d","\"","]",","," ","\"","r","e","a","s","o","n","\"",":"," ","\"","s","e","m","i","n","a","l","\"",","," ","\"","c","o","n","f","i","d","e","n","c","e","\"",":"," ","0",".","9","}">>

LT_fenced == <<"H","e","r","e"," ","i","s"," ","t","h","e"," ","J","S","O","N",":","\n","{","\"","t","i","t","l","e","s","\"",":"," ","[","\"","A","t","t","e","n","t","i","o","n"," ","I","s"," ","A","l","l"," ","Y","o","u"," ","N","e","e","d","\"","]",","," ","\"","r","e","a","s","o","n","\"",":"," ","\"","s","e","m","i","n","a","l","\"",","," ","\"","c","o","n","f","i","d","e","n","c","e","\"",":"," ","0",".","9","}","\n","D","o","n","e">>

LT_truncated == <<"{","\"","t","i","t","l","e","s","\"",":"," ","[","\"","A","t","t","e","n","t","i","o","n"," ","I","s"," ","A","l","l"," ","Y","o","u">>

LT_no_titles == <<"{","\"","t","i","t","l","e","s","\"",":"," ","[","]",","," ","\"","r","e","a","s","o","n","\"",":"," ","\"","s","e","m","i","n","a","l","\"",","," ","\"","c","o","n","f","i","d","e","n","c","e","\"",":"," ","0",".","9","}">>

LT_nan == <<"{","\"","t","i","t","l","e","s","\"",":"," ","[","\"","A","t","t","e","n","t","i","o","n"," ","I","s"," ","A","l","l"," ","Y","o","u"," ","N","e","e","d","\"","]",","," ","\"","r","e","a","s","o","n","\"",":"," ","\"","s","e","m","i","n","a","l","\"",","," ","\"","c","o","n","f","i","d","e","n","c","e","\"",":"," ","N","a","N","}">>

LT_two_objects == <<"{","\"","n","o","t","e","\"",":"," ","1","}"," ","{","\"","t","i","t","l","e","s","\"",":"," ","[","\"","F","o","c","a","l"," ","L","o","s","s"," ","f","o","r"," ","D","e","n","s","e"," ","O","b","j","e","c","t"," ","D","e","t","e","c","t","i","o","n","\"","]",","," ","\"","r","e","a","s","o","n","\"",":"," ","\"","x","\"",","," ","\"","c","o","n","f","i","d","e","n","c","e","\"",":"," ","1","}">>

LT_quoted == <<"T","h","e"," ","s","e","m","i","n","a","l"," ","p","a","p","e","r"," ","i","s"," ","\"","A","t","t","e","n","t","i","o","n"," ","I","s"," ","A","l","l"," ","Y","o","u"," ","N","e","e","d","\""," ","b","y"," ","V","a","s","w","a","n","i",".">>

LT_unquoted == <<"I"," ","s","h","o","u","l","d"," ","a","n","s","w","e","r"," ","w","i","t","h"," ","t","h","e"," ","k","e","y","w","o","r","d"," ","a","n","d"," ","a"," ","r","e","a","s","o","n",".">>

LT_banned == <<"U","s","e"," ","\"","t","h","e"," ","o","u","t","p","u","t"," ","f","o","r","m","a","t"," ","g","i","v","e","n","\""," ","a","n","d"," ","'","a"," ","s","h","o","r","t"," ","r","e","a","s","o","n"," ","w","h","y","'",".">>

LT_five == <<"\"","A","t","t","e","n","t","i","o","n"," ","I","s"," ","A","l","l"," ","Y","o","u"," ","N","e","e","d","\"",","," ","'","F","o","c","a","l"," ","L","o","s","s"," ","f","o","r"," ","D","e","n","s","e"," ","O","b","j","e","c","t"," ","D","e","t","e","c","t","i","o","n","'",","," ","\"","D","e","e","p"," ","R","e","s","i","d","u","a","l"," ","L","e","a","r","n","i","n","g","\"",","," ","\"","a","t","t","e","n","t","i","o","n"," ","i","s"," ","a","l","l"," "," ","y","o","u"," ","n","e","e","d","\"",","," ","\"","M","a","s","k"," ","R","-","C","N","N"," ","E","x","t","e","n","d","e","d","\"">>

LT_titled == <<"I","t"," ","i","s"," ","t","h","e"," ","p","a","p","e","r"," ","t","i","t","l","e","d"," ","A","t","t","e","n","t","i","o","n"," ","I","s"," ","A","l","l"," ","Y","o","u"," ","N","e","e","d","."," ","D","o","n","e">>

LT_pool_valid == <<"{","\"","s","e","l","e","c","t","e","d","_","c","a","n","d","i","d","a","t","e","_","i","d","\"",":"," ","\"","C","1","\"",","," ","\"","r","e","a","s","o","n","\"",":"," ","\"","e","x","a","c","t"," ","m","a","t","c","h","\"",","," ","\"","c","o","n","f","i","d","e","n","c","e","\"",":"," ","0",".","8","}">>

LT_pool_second == <<"{","\"","s","e","l","e","c","t","e","d","_","c","a","n","d","i","d","a","t","e","_","i","d","\"",":"," ","\""," ","C","2"," ","\"",","," ","\"","r","e","a","s","o","n","\"",":"," ","\"","b","e","t","t","e","r"," ","v","e","n","u","e","\"",","," ","\"","c","o","n","f","i","d","e","n","c","e","\"",":"," ","\"","0",".","5","\"","}">>

LT_pool_unknown == <<"{","\"","s","e","l","e","c","t","e","d","_","c","a","n","d","i","d","a","t","e","_","i","d","\"",":"," ","\"","C","9","\"",","," ","\"","r","e","a","s","o","n","\"",":"," ","\"","g","u","e","s","s","\"",","," ","\"","c","o","n","f","i","d","e","n","c","e","\"",":"," ","0",".","8","}">>

LT_pool_no_id == <<"{","\"","s","e","l","e","c","t","e","d","_","c","a","n","d","i","d","a","t","e","_","i","d","\"",":"," ","\"","\"",","," ","\"","r","e","a","s","o","n","\"",":"," ","\"","n","o","n","e"," ","f","i","t","s","\"",","," ","\"","c","o","n","f","i","d","e","n","c","e","\"",":"," ","0",".","1","}">>

LT_focal == <<"{","\"","t","i","t","l","e","s","\"",":"," ","[","\"","F","o","c","a","l"," ","L","o","s","s"," ","f","o","r"," ","D","e","n","s","e"," ","O","b","j","e","c","t"," ","D","e","t","e","c","t","i","o","n","\"","]",","," ","\"","r","e","a","s","o","n","\"",":"," ","\"","s","e","m","i","n","a","l","\"",","," ","\"","c","o","n","f","i","d","e","n","c","e","\"",":"," ","0",".","9","}">>

LT_resnet_focal == <<"{","\"","t","i","t","l","e","s","\"",":"," ","[","\"","D","e","e","p"," ","R","e","s","i","d","u","a","l"," ","L","e","a","r","n","i","n","g","\"",","," ","\"","F","o","c","a","l"," ","L","o","s","s"," ","f","o","r"," ","D","e","n","s","e"," ","O","b","j","e","c","t"," ","D","e","t","e","c","t","i","o","n","\"","]",","," ","\"","r","e","a","s","o","n","\"",":"," ","\"","s","e","m","i","n","a","l","\"",","," ","\"","c","o","n","f","i","d","e","n","c","e","\"",":"," ","0",".","9","}">>

V_CVPR == <<"C","V","P","R">>

M_no_candidate_url == <<"N","o"," ","P","D","F"," ","c","a","n","d","i","d","a","t","e"," ","U","R","L"," ","f","o","u","n","d"," ","i","n"," ","m","e","t","a","d","a","t","a",".">>

M_http_418 == <<"F","a","i","l","e","d"," ","t","o"," ","d","o","w","n","l","o","a","d"," ","P","D","F"," ","f","r","o","m"," ","1"," ","c","a","n","d","i","d","a","t","e"," ","U","R","L","(","s",")","."," ","L","a","s","t"," ","e","r","r","o","r",":"," ","u"," ","-",">"," ","4","1","8"," ","C","l","i","e","n","t"," ","E","r","r","o","r">>

M_non_pdf == <<"F","a","i","l","e","d"," ","t","o"," ","d","o","w","n","l","o","a","d"," ","P","D","F"," ","f","r","o","m"," ","1"," ","c","a","n","d","i","d","a","t","e"," ","U","R","L","(","s",")","."," ","L","a","s","t"," ","e","r","r","o","r",":"," ","u"," ","-",">"," ","n","o","n","-","p","d","f"," ","r","e","s","p","o","n","s","e">>

M_timed_out == <<"F","a","i","l","e","d"," ","t","o"," ","d","o","w","n","l","o","a","d"," ","P","D","F"," ","f","r","o","m"," ","1"," ","c","a","n","d","i","d","a","t","e"," ","U","R","L","(","s",")","."," ","L","a","s","t"," ","e","r","r","o","r",":"," ","u"," ","-",">"," ","R","e","a","d"," ","t","i","m","e","d"," ","o","u","t">>

S_418 == <<"4","1","8">>

S_non_pdf == <<"n","o","n","-","p","d","f">>

S_no_pdf == <<"n","o"," ","p","d","f">>

\* the texts whose normal form is tabulated
NormInputs ==
    {T_MaskRCNN, T_maskrcnn_sp, T_mask_r_cnn, K_DETR, T_DETR, T_DN_DETR,
     K_focal, T_Focal, T_FOCAL, T_FocalSurvey, T_ResNet, T_punct, T_MaskExt, <<>>,
     K_etr, K_loss_focal, K_focal_DETR}

(***************************************************************************)
(* Strings (str.strip, str.lower, re.sub, in, str.split).                  *)
(***************************************************************************)

\* str.lower() on one ASCII character
lower_char(c) ==
    IF \E i \in DOMAIN UpperChars : UpperChars[i] = c
    THEN LowerChars[CHOOSE i \in DOMAIN UpperChars : UpperChars[i] = c]
    ELSE c

\* str.upper() on one ASCII character
upper_char(c) ==
    IF \E i \in DOMAIN LowerChars : LowerChars[i] = c
    THEN UpperChars[CHOOSE i \in DOMAIN LowerChars : LowerChars[i] = c]
    ELSE c

\* str.upper()
upper(text) == [i \in DOMAIN text |-> upper_char(text[i])]

\* str.lower()
lower(text) == [i \in DOMAIN text |-> lower_char(text[i])]

\* the class [a-z0-9] of normalize_text's first re.sub
IsLowerAlnum(c) == c \in Range(LowerChars) \cup Range(DigitChars)

\* \s: the whitespace characters of the model's alphabet
IsSpace(c) == c \in {" ", "\t", "\n"}

\* the elements of s at the positions i with keep[i], in order
RECURSIVE KeepAt(_, _, _)
KeepAt(s, keep, i) ==
    IF i > Len(s) THEN <<>>
    ELSE (IF keep[i] THEN <<s[i]>> ELSE <<>>) \o KeepAt(s, keep, i + 1)

\* str.strip(): leading and trailing whitespace removed
strip(text) ==
    LET nonspace == {i \in DOMAIN text : ~IsSpace(text[i])}
    IN  IF nonspace = {} THEN <<>>
        ELSE LET first == CHOOSE i \in nonspace : \A j \in nonspace : i <= j
                 last  == CHOOSE i \in nonspace : \A j \in nonspace : j <= i
             IN  SubSeq(text, first, last)

\* re.sub(r"\s+", " ", text): every run of whitespace becomes one space
collapse_whitespace(text) ==
    LET sp == [i \in DOMAIN text |-> IF IsSpace(text[i]) THEN " " ELSE text[i]]
        keep == [i \in DOMAIN text |-> ~IsSpace(text[i]) \/ i = 1 \/ ~IsSpace(text[i - 1])]
    IN  KeepAt(sp, keep, 1)

\* re.sub(r"[^a-z0-9]+", " ", text): every run of other characters becomes one space
sub_non_alnum(text) ==
    LET sp == [i \in DOMAIN text |-> IF IsLowerAlnum(text[i]) THEN text[i] ELSE " "]
        keep == [i \in DOMAIN text |->
                    IsLowerAlnum(text[i]) \/ i = 1 \/ IsLowerAlnum(text[i - 1])]
    IN  KeepAt(sp, keep, 1)

normalize_text_compute(text) == strip(collapse_whitespace(sub_non_alnum(lower(text))))

NormMemo == {<<text, normalize_text_compute(text)>> : text \in NormInputs}

\* normalize_text, computed once for each text of NormInputs
normalize_text(text) ==
    IF text \in NormInputs THEN (CHOOSE entry \in NormMemo : entry[1] = text)[2]
    ELSE normalize_text_compute(text)

\* needle in hay
Contains(hay, needle) ==
    \E i \in 0..(Len(hay) - Len(needle)) : SubSeq(hay, i + 1, i + Len(needle)) = needle

\* text.split() from position i, cur being the token read so far
RECURSIVE SplitFrom(_, _, _)
SplitFrom(text, i, cur) ==
    IF i > Len(text) THEN (IF cur = <<>> THEN <<>> ELSE <<cur>>)
    ELSE IF IsSpace(text[i])
         THEN (IF cur = <<>> THEN <<>> ELSE <<cur>>) \o SplitFrom(text, i + 1, <<>>)
         ELSE SplitFrom(text, i + 1, Append(cur, text[i]))

\* text.split(): the maximal runs of non-whitespace, in order
split(text) == SplitFrom(text, 1, <<>>)

\* set(text.split())
Tokens(text) == Range(split(text))

\* str(n) for n >= 0
RECURSIVE int_str(_)
int_str(n) == IF n < 10 THEN <<DigitChars[n + 1]>> ELSE int_str(n \div 10) \o <<DigitChars[(n % 10) + 1]>>

\* str(paper.get("year") or "")
year_str(year) == IF year = 0 THEN <<>> ELSE int_str(year)

(***************************************************************************)
(* Paper records.  externalIds maps a scheme name to a string.             *)
(***************************************************************************)

NoIds == [k \in {} |-> <<>>]

\* the fields of the common record that the pipeline reads; Paper leaves the
\* bibliographic and PDF fields empty
Paper(id, title, year, cites, ids, venue) ==
    [paperId |-> id, title |-> title, year |-> year, citationCount |-> cites,
     externalIds |-> ids, venue |-> venue,
     volume |-> <<>>, issue |-> <<>>, pages |-> <<>>, url |-> <<>>, rawType |-> <<>>,
     pdfUrl |-> <<>>, openAccessPdf |-> <<>>, documentType |-> <<>>, authors |-> <<>>,
     pdfUrls |-> <<>>]

IdlePaper == Paper(<<>>, <<>>, 0, 0, NoIds, <<>>)

NoResult == [kind |-> "none"]

DoiIds(doi) == [k \in {"DOI"} |-> doi]

ListsOver(S, n) == UNION {[1..k -> S] : k \in 0..n}

\* the records the dedupe check draws its lists from
DedupeCatalog ==
    {Paper(id, t, 2017, 0, NoIds, <<>>) :
        id \in {<<>>, Id_W1, Id_S2}, t \in {T_MaskRCNN, T_maskrcnn_sp, T_mask_r_cnn}}
    \cup {Paper(<<>>, T_MaskRCNN, y, 0, NoIds, <<>>) : y \in {0, 2018}}

\* the two records of the scorer's ordering example, with or without the arXiv venue
DETR_Original(venue) == Paper(<<"A">>, T_DETR, 2020, 9000, DoiIds(Doi_x), venue)

DETR_Variant(venue) == Paper(<<"B">>, T_DN_DETR, 2022, 300, NoIds, venue)

\* records titled "DETR" without citations whose other fields differ: a DOI-bearing
\* arXiv-venue record and a record with neither, over known and unknown years
TieFamily ==
    {Paper(<<"T">>, K_DETR, y, 0, ids, <<>>) : y \in {0, 1995, 2005, 2020}, ids \in {NoIds}}
    \cup {Paper(<<"U">>, K_DETR, y, 0, DoiIds(Doi_x), V_arXiv) : y \in {0, 1995, 2005, 2020}}

SelectCatalog ==
    {DETR_Original(v) : v \in {<<>>, V_arXiv}}
    \cup {DETR_Variant(v) : v \in {<<>>, V_arXiv}}
    \cup TieFamily

\* the (keyword, record) pairs whose score is tabulated
\* candidates of a title search for "Focal Loss for Dense Object Detection": exact-title
\* hits from two providers, two records without provider id, and two other records
PoolCatalog ==
    {Paper(<<"H","1">>, T_Focal, 2017, 50, NoIds, <<>>),
     Paper(<<"H","2">>, T_FOCAL, 2017, 200, DoiIds(Doi_x), <<>>),
     Paper(<<"H","3">>, T_Focal, 2018, 50, NoIds, <<>>),
     Paper(<<>>, T_Focal, 2017, 5, NoIds, <<>>),
     Paper(<<>>, T_FOCAL, 2017, 0, NoIds, <<>>),
     Paper(<<"F","1">>, T_FocalSurvey, 2019, 9000, DoiIds(Doi_x), <<>>),
     Paper(<<"F","2">>, T_ResNet, 2016, 300, NoIds, <<>>)}

ProposalCatalog ==
    {<<>>, <<T_Focal>>, <<T_ResNet, T_Focal>>, <<T_Focal, T_FOCAL>>, <<T_punct, T_Focal>>}

\* the winners handed to the backup matcher: with and without DOI, with and without year
PrimaryCatalog ==
    {Paper(Id_W1, T_MaskRCNN, 2017, 100, DoiIds(Doi_x), <<>>),
     Paper(Id_W1, T_MaskRCNN, 2017, 100, NoIds, <<>>),
     Paper(Id_W1, T_MaskRCNN, 0, 100, DoiIds(Doi_x), <<>>)}

\* what the other provider's search returns: the same title in its spelling, a longer
\* title containing it, an unrelated title; the same, the next or no year; the same DOI
\* or none
BackupCatalog ==
    {Paper(Id_S2, t, y, 0, ids, <<>>) :
        t \in {T_mask_r_cnn, T_MaskExt, T_ResNet}, y \in {0, 2017, 2018},
        ids \in {NoIds, DoiIds(Doi_X)}}
    \cup {Paper(Id_S2, T_ResNet, 2017, 50, NoIds, <<>>),
          Paper(Id_S2, T_MaskExt, 0, 50, NoIds, <<>>)}

ScoredInputs == ({K_DETR} \X SelectCatalog) \cup ({K_focal} \X PoolCatalog)

(***************************************************************************)
(* Merge/Dedupe (cli.py).                                                  *)
(***************************************************************************)

\* key = paper_id or f"{title}::{year}"
DedupeKey(paper) ==
    LET paper_id == strip(paper.paperId)
        title == lower(strip(paper.title))
        year == strip(year_str(paper.year))
    IN  IF paper_id # <<>> THEN paper_id ELSE title \o <<":", ":">> \o year

RECURSIVE MergeLoopKeepLast(_, _, _)
MergeLoopKeepLast(list, i, seen) ==
    IF i > Len(list) THEN <<>>
    ELSE LET key == DedupeKey(list[i])
         IN  IF key = <<>> \/ (\E j \in (i + 1)..Len(list) : DedupeKey(list[j]) = key)
             THEN MergeLoopKeepLast(list, i + 1, seen)
             ELSE <<list[i]>> \o MergeLoopKeepLast(list, i + 1, seen)

\* the for loop of _merge_and_dedupe_papers from position i with the keys seen so far
RECURSIVE MergeLoop(_, _, _)
MergeLoop(list, i, seen) ==
    IF i > Len(list) THEN <<>>
    ELSE LET key == DedupeKey(list[i])
         IN  IF key = <<>> \/ key \in seen
             THEN MergeLoop(list, i + 1, seen)
             ELSE <<list[i]>> \o MergeLoop(list, i + 1, seen \cup {key})

_merge_and_dedupe_papers(list) == MergeLoop(list, 1, {})

(***************************************************************************)
(* Candidate Scorer (select.py).  Scores are in thousandths: 20.0 is 20000. *)
(***************************************************************************)

S_arxiv == <<"a","r","x","i","v">>

S_arxiv_doi_prefix == <<"1","0",".","4","8","5","5","0","/","a","r","x","i","v",".">>

S_survey == <<"s","u","r","v","e","y">>

S_review == <<"r","e","v","i","e","w">>

\* dict.get(k) or ""
ids_get(ids, k) == IF k \in DOMAIN ids THEN ids[k] ELSE <<>>

\* get_doi: the stripped DOI, <<>> for None
get_doi(paper) ==
    LET external_ids == paper.externalIds
        doi == IF ids_get(external_ids, "DOI") # <<>> THEN ids_get(external_ids, "DOI")
               ELSE ids_get(external_ids, "doi")
    IN  strip(doi)

StartsWith(text, prefix) == Len(text) >= Len(prefix) /\ SubSeq(text, 1, Len(prefix)) = prefix

is_arxiv_doi(doi) ==
    IF doi = <<>> THEN FALSE
    ELSE LET normalized == lower(doi)
         IN  StartsWith(normalized, S_arxiv_doi_prefix) \/ Contains(normalized, S_arxiv)

\* "arxiv" in external_ids tests the dict's keys, case-sensitively
is_preprint(paper) ==
    LET external_ids == paper.externalIds
        venue == lower(paper.venue)
    IN  "arxiv" \in DOMAIN external_ids \/ venue = S_arxiv

\* \w of the regular expressions, on lowercased text
IsWordChar(c) == IsLowerAlnum(c) \/ c = "_" \/ c \in Range(UpperChars)

\* \b before position i (between i-1 and i) and after position i (between i and i+1)
BoundaryBefore(text, i) ==
    (i >= 1 /\ i <= Len(text) /\ IsWordChar(text[i])) # (i > 1 /\ IsWordChar(text[i - 1]))

BoundaryAfter(text, i) ==
    (i >= 1 /\ i <= Len(text) /\ IsWordChar(text[i])) # (i < Len(text) /\ IsWordChar(text[i + 1]))

\* re.search(rf"\b{word}\b", text)
HasWord(text, word) ==
    \E i \in 1..(Len(text) - Len(word) + 1) :
        /\ SubSeq(text, i, i + Len(word) - 1) = word
        /\ BoundaryBefore(text, i)
        /\ BoundaryAfter(text, i + Len(word) - 1)

\* re.search(rf"\b[a-z0-9]+-{escaped}\b", title_norm)
HasPrefixedVariant(title_norm, kw) ==
    \E d \in DOMAIN title_norm :
        /\ title_norm[d] = "-"
        /\ d + Len(kw) <= Len(title_norm)
        /\ SubSeq(title_norm, d + 1, d + Len(kw)) = kw
        /\ BoundaryAfter(title_norm, d + Len(kw))
        /\ \E b \in 1..(d - 1) :
              /\ \A k \in b..(d - 1) : IsLowerAlnum(title_norm[k])
              /\ BoundaryBefore(title_norm, b)

\* re.search(rf"\b{escaped}-[a-z0-9]+\b", title_norm)
HasSuffixedVariant(title_norm, kw) ==
    \E i \in 1..(Len(title_norm) - Len(kw)) :
        /\ SubSeq(title_norm, i, i + Len(kw) - 1) = kw
        /\ BoundaryBefore(title_norm, i)
        /\ title_norm[i + Len(kw)] = "-"
        /\ \E e \in (i + Len(kw) + 1)..Len(title_norm) :
              /\ \A k \in (i + Len(kw) + 1)..e : IsLowerAlnum(title_norm[k])
              /\ BoundaryAfter(title_norm, e)

Max(a, b) == IF a >= b THEN a ELSE b

\* the scorer with the substring bonus and the token term as alternatives
_query_relevance_score_exclusive(kw, title) ==
    LET title_norm == normalize_text(title)
        keyword_norm == normalize_text(kw)
        keyword_tokens == Tokens(keyword_norm)
        overlap == Cardinality(keyword_tokens \cap Tokens(title_norm))
    IN  IF title_norm = <<>> \/ keyword_norm = <<>> THEN -8000
        ELSE IF Contains(title_norm, keyword_norm) THEN 20000
        ELSE IF overlap > 0 THEN (15000 * overlap) \div Max(1, Cardinality(keyword_tokens))
        ELSE -10000

_query_relevance_score(kw, title) ==
    LET title_norm == normalize_text(title)
        keyword_norm == normalize_text(kw)
        keyword_tokens == Tokens(keyword_norm)
        title_tokens == Tokens(title_norm)
        overlap == Cardinality(keyword_tokens \cap title_tokens)
        substring == IF Contains(title_norm, keyword_norm) THEN 20000 ELSE 0
        tokens == IF overlap > 0
                  THEN (15000 * overlap) \div Max(1, Cardinality(keyword_tokens))
                  ELSE -10000
        short == Len(keyword_norm) <= 8 /\ ~Contains(keyword_norm, <<" ">>)
        before == IF short /\ HasPrefixedVariant(title_norm, keyword_norm) THEN -8000 ELSE 0
        after == IF short /\ HasSuffixedVariant(title_norm, keyword_norm) THEN -8000 ELSE 0
    IN  IF title_norm = <<>> \/ keyword_norm = <<>> THEN -8000
        ELSE substring + tokens + before + after

\* math.log1p(citations) * 14.0 in thousandths, rounded, for the citation counts of
\* the model's records
log1p_times_14(citations) ==
    CASE citations = 0 -> 0
      [] citations = 5 -> 25085
      [] citations = 50 -> 55046
      [] citations = 200 -> 74246
      [] citations = 300 -> 79900
      [] citations = 9000 -> 127471

\* max(0, int(paper.get("citationCount") or 0))
citations_of(paper) == Max(0, paper.citationCount)

\* int(paper.get("year") or 9999)
year_or_9999(paper) == IF paper.year = 0 THEN 9999 ELSE paper.year

score_paper_compute(kw, paper) ==
    LET title == paper.title
        doi == get_doi(paper)
        year == year_or_9999(paper)
    IN  _query_relevance_score(kw, title)
        + (IF doi # <<>> /\ ~is_arxiv_doi(doi) THEN 80000 ELSE 0)
        + (IF is_preprint(paper) THEN -20000 ELSE 40000)
        + log1p_times_14(citations_of(paper))
        + (IF HasWord(lower(title), S_survey) \/ HasWord(lower(title), S_review)
           THEN -30000 ELSE 0)
        + (IF year < 9999 THEN Max(0, (2030 - year) * 800) ELSE 0)

ScoreMemo == {<<x, score_paper_compute(x[1], x[2])>> : x \in ScoredInputs}

\* score_paper, computed once for each record of the catalogs
score_paper(kw, paper) ==
    IF <<kw, paper>> \in ScoredInputs
    THEN (CHOOSE entry \in ScoreMemo : entry[1] = <<kw, paper>>)[2]
    ELSE score_paper_compute(kw, paper)

(***************************************************************************)
(* Rule Selector (select.py).                                              *)
(***************************************************************************)

\* Python's tuple comparison a > b on triples
TupleGreater(a, b) ==
    \/ a[1] > b[1]
    \/ a[1] = b[1] /\ a[2] > b[2]
    \/ a[1] = b[1] /\ a[2] = b[2] /\ a[3] > b[3]

\* rank_key = (score, citations, -year)
rank_key_later_year(kw, paper) ==
    <<score_paper(kw, paper), citations_of(paper),
      IF paper.year = 0 THEN -1 ELSE paper.year>>

rank_key(kw, paper) ==
    <<score_paper(kw, paper), citations_of(paper), -year_or_9999(paper)>>

RECURSIVE PickLoopReversed(_, _, _, _)
PickLoopReversed(kw, list, i, best) ==
    IF i > Len(list) THEN best
    ELSE IF best = 0 \/ TupleGreater(rank_key(kw, list[best]), rank_key(kw, list[i]))
         THEN PickLoopReversed(kw, list, i + 1, i)
         ELSE PickLoopReversed(kw, list, i + 1, best)

\* the for loop of pick_best_candidate from position i; best = 0 stands for None
RECURSIVE PickLoop(_, _, _, _)
PickLoop(kw, list, i, best) ==
    IF i > Len(list) THEN best
    ELSE IF best = 0 \/ TupleGreater(rank_key(kw, list[i]), rank_key(kw, list[best]))
         THEN PickLoop(kw, list, i + 1, i)
         ELSE PickLoop(kw, list, i + 1, best)

pick_best_candidate(kw, list) ==
    LET best == PickLoop(kw, list, 1, 0)
    IN  IF best = 0 THEN [kind |-> "raise", error |-> "ValueError"]
        ELSE [kind |-> "return", value |-> list[best]]

(***************************************************************************)
(* Validation Pool Builder (cli.py).                                       *)
(***************************************************************************)

\* the permutation of 1..Len(keys) that sorted(..., reverse=True) applies: descending
\* key, equal keys in their original order (the sort is stable)
SortedDescending(keys) ==
    [k \in DOMAIN keys |->
        CHOOSE i \in DOMAIN keys :
            Cardinality({j \in DOMAIN keys :
                keys[j] > keys[i] \/ (keys[j] = keys[i] /\ j < i)}) = k - 1]

SortedAscending(keys) ==
    [k \in DOMAIN keys |->
        CHOOSE i \in DOMAIN keys :
            Cardinality({j \in DOMAIN keys :
                keys[j] < keys[i] \/ (keys[j] = keys[i] /\ j < i)}) = k - 1]

\* the key of add_paper: paper_id or f"{normalize_text(title)}::{year}"
PoolKey(paper) ==
    LET paper_id == strip(paper.paperId)
        title == normalize_text(paper.title)
        year == strip(year_str(paper.year))
    IN  IF paper_id # <<>> THEN paper_id ELSE title \o <<":", ":">> \o year

\* add_paper on the closure's state (keep, seen)
add_paper(st, paper) ==
    LET key == PoolKey(paper)
    IN  IF key = <<>> \/ key \in st.seen THEN st
        ELSE [keep |-> Append(st.keep, paper), seen |-> st.seen \cup {key}]

\* for hit in list[i:]: add_paper(hit)
RECURSIVE AddAll(_, _, _)
AddAll(st, list, i) ==
    IF i > Len(list) THEN st ELSE AddAll(add_paper(st, list[i]), list, i + 1)

\* exact_hits: the papers whose normalized title equals target_norm, in list order
exact_hits(list, target_norm) ==
    KeepAt(list, [i \in DOMAIN list |-> normalize_text(list[i].title) = target_norm], 1)

sorted_hits_ascending(hits) ==
    LET order == SortedAscending([i \in DOMAIN hits |-> hits[i].citationCount])
    IN  [k \in DOMAIN hits |-> hits[order[k]]]

\* sorted(exact_hits, key=citationCount, reverse=True)
sorted_hits(hits) ==
    LET order == SortedDescending([i \in DOMAIN hits |-> hits[i].citationCount])
    IN  [k \in DOMAIN hits |-> hits[order[k]]]

\* for target_title in proposed_titles[t:]
RECURSIVE TitlesLoop(_, _, _, _)
TitlesLoop(st, list, titles, t) ==
    IF t > Len(titles) THEN st
    ELSE LET target_norm == normalize_text(titles[t])
         IN  IF target_norm = <<>> THEN TitlesLoop(st, list, titles, t + 1)
             ELSE TitlesLoop(AddAll(st, sorted_hits(exact_hits(list, target_norm)), 1),
                             list, titles, t + 1)

\* the candidate list sorted by ascending score
ranked_by_score_ascending(kw, list) ==
    LET order == SortedAscending([i \in DOMAIN list |-> score_paper(kw, list[i])])
    IN  [k \in DOMAIN list |-> list[order[k]]]

\* sorted(papers, key=score_paper, reverse=True)
ranked_by_score(kw, list) ==
    LET order == SortedDescending([i \in DOMAIN list |-> score_paper(kw, list[i])])
    IN  [k \in DOMAIN list |-> list[order[k]]]

\* for paper in ranked[i:]: add_paper(paper); if len(keep) >= size: break
RECURSIVE FillLoop(_, _, _, _)
FillLoop(st, ranked, i, size) ==
    IF i > Len(ranked) THEN st
    ELSE LET next == add_paper(st, ranked[i])
         IN  IF Len(next.keep) >= size THEN next ELSE FillLoop(next, ranked, i + 1, size)

\* keep[:size]
Take(list, n) == SubSeq(list, 1, IF n < Len(list) THEN n ELSE Len(list))

_build_validation_pool(kw, list, n, titles) ==
    LET size == Max(1, n)
        hits == TitlesLoop([keep |-> <<>>, seen |-> {}], list, titles, 1)
        filled == FillLoop(hits, ranked_by_score(kw, list), 1, size)
    IN  Take(filled.keep, size)

(***************************************************************************)
(* Backup Metadata Merger: the match (cli.py).                             *)
(***************************************************************************)

\* int(x.get("year") or 0) is the year, 0 when unknown; abs(a - b)
Abs(n) == IF n < 0 THEN -n ELSE n

\* the score of one candidate in _pick_best_backup_match
backup_score(prim, candidate) ==
    LET primary_title == normalize_text(prim.title)
        primary_year == prim.year
        primary_doi == get_doi(prim)
        candidate_doi == get_doi(candidate)
        candidate_title == normalize_text(candidate.title)
        candidate_year == candidate.year
    IN  (IF primary_doi # <<>> /\ candidate_doi # <<>> /\ lower(primary_doi) = lower(candidate_doi)
         THEN 100 ELSE 0)
        + (IF primary_title # <<>> /\ candidate_title # <<>>
           THEN (IF candidate_title = primary_title THEN 50
                 ELSE IF Contains(candidate_title, primary_title)
                         \/ Contains(primary_title, candidate_title) THEN 20
                 ELSE 0)
           ELSE 0)
        + (IF primary_year # 0 /\ candidate_year # 0
           THEN (IF candidate_year = primary_year THEN 8
                 ELSE IF Abs(candidate_year - primary_year) <= 1 THEN 3
                 ELSE 0)
           ELSE 0)

\* rank_key = (score, citations, -candidate_year if candidate_year else 0)
backup_rank_key(prim, candidate) ==
    <<backup_score(prim, candidate), candidate.citationCount,
      IF candidate.year # 0 THEN -candidate.year ELSE 0>>

\* the for loop of _pick_best_backup_match from position i; best = 0 stands for None
RECURSIVE BackupLoop(_, _, _, _)
BackupLoop(prim, list, i, best) ==
    IF i > Len(list) THEN best
    ELSE IF best = 0 \/ TupleGreater(backup_rank_key(prim, list[i]),
                                     backup_rank_key(prim, list[best]))
         THEN BackupLoop(prim, list, i + 1, i)
         ELSE BackupLoop(prim, list, i + 1, best)

backup_below_threshold_inclusive(score) == score <= 20

\* best_key[0] < 20
backup_below_threshold(score) == score < 20

\* return None
ReturnNone == [kind |-> "return", none |-> TRUE]

_pick_best_backup_match(prim, list) ==
    IF list = <<>> THEN ReturnNone
    ELSE LET best == BackupLoop(prim, list, 1, 0)
         IN  IF backup_below_threshold(backup_score(prim, list[best])) THEN ReturnNone
             ELSE [kind |-> "return", none |-> FALSE, value |-> list[best]]

\* an exception raised, a value returned
Raise(error, message) == [kind |-> "raise", error |-> error, message |-> message]

Return(value) == [kind |-> "return", value |-> value]

(***************************************************************************)
(* JSON values as json.loads returns them, tagged by their Python type.    *)
(***************************************************************************)

JNull == [t |-> "null"]

JStr(s) == [t |-> "str", s |-> s]

JInt(n) == [t |-> "int", n |-> n]

\* an integer literal beyond the range of float, such as a 1 followed by 400 zeros
JBigInt == [t |-> "bigint"]

\* a finite float, in thousandths
JFloat(m) == [t |-> "float", milli |-> m]

\* the literal NaN, which json.loads accepts
JNaN == [t |-> "nan"]

\* Infinity (sign 1) and -Infinity (sign -1), also what 1e999 parses to
JInf(sign) == [t |-> "inf", sign |-> sign]

JBool(b) == [t |-> "bool", b |-> b]

JList(items) == [t |-> "list", items |-> items]

\* a dict as its key/value pairs in insertion order
JDict(pairs) == [t |-> "dict", pairs |-> pairs]

\* d.get(key): the value of the last pair with that key, None when there is none
dict_get(d, key) ==
    LET hits == {i \in DOMAIN d.pairs : d.pairs[i][1] = key}
    IN  IF hits = {} THEN JNull
        ELSE d.pairs[CHOOSE i \in hits : \A j \in hits : j <= i][2]

\* key in d
dict_has(d, key) == \E i \in DOMAIN d.pairs : d.pairs[i][1] = key

\* bool(v), as in `v or ""`
py_truthy(v) ==
    CASE v.t = "null" -> FALSE
      [] v.t = "str" -> v.s # <<>>
      [] v.t = "int" -> v.n # 0
      [] v.t = "float" -> v.milli # 0
      [] v.t = "bool" -> v.b
      [] v.t = "list" -> v.items # <<>>
      [] v.t = "dict" -> v.pairs # <<>>
      [] OTHER -> TRUE

\* the decimal digits of n >= 0 on exactly k places
RECURSIVE fixed_digits(_, _)
fixed_digits(n, k) ==
    IF k = 0 THEN <<>> ELSE fixed_digits(n \div 10, k - 1) \o <<DigitChars[(n % 10) + 1]>>

\* digits without their trailing zeros, one digit at least
RECURSIVE drop_trailing_zeros(_)
drop_trailing_zeros(digits) ==
    IF Len(digits) > 1 /\ digits[Len(digits)] = "0"
    THEN drop_trailing_zeros(SubSeq(digits, 1, Len(digits) - 1))
    ELSE digits

\* repr of a finite float given in thousandths: 500 is 0.5, 1000 is 1.0
float_str(m) ==
    LET a == IF m < 0 THEN -m ELSE m
    IN  (IF m < 0 THEN <<"-">> ELSE <<>>)
        \o int_str(a \div 1000) \o <<".">> \o drop_trailing_zeros(fixed_digits(a % 1000, 3))

\* str(v); inside a list or dict a string is shown in quotes
RECURSIVE py_str(_, _)
RECURSIVE py_join(_, _)
RECURSIVE py_join_pairs(_, _)
py_str(v, quoted) ==
    CASE v.t = "null" -> <<"N","o","n","e">>
      [] v.t = "str" -> IF quoted THEN <<"'">> \o v.s \o <<"'">> ELSE v.s
      [] v.t = "int" -> IF v.n < 0 THEN <<"-">> \o int_str(-v.n) ELSE int_str(v.n)
      [] v.t = "bigint" -> <<"1">> \o [i \in 1..400 |-> "0"]
      [] v.t = "float" -> float_str(v.milli)
      [] v.t = "nan" -> <<"n","a","n">>
      [] v.t = "inf" -> (IF v.sign < 0 THEN <<"-">> ELSE <<>>) \o <<"i","n","f">>
      [] v.t = "bool" -> IF v.b THEN <<"T","r","u","e">> ELSE <<"F","a","l","s","e">>
      [] v.t = "list" -> <<"[">> \o py_join(v.items, 1) \o <<"]">>
      [] v.t = "dict" -> <<"{">> \o py_join_pairs(v.pairs, 1) \o <<"}">>
py_join(items, i) ==
    IF i > Len(items) THEN <<>>
    ELSE (IF i > 1 THEN <<",", " ">> ELSE <<>>) \o py_str(items[i], TRUE) \o py_join(items, i + 1)
py_join_pairs(pairs, i) ==
    IF i > Len(pairs) THEN <<>>
    ELSE (IF i > 1 THEN <<",", " ">> ELSE <<>>)
         \o <<"'">> \o pairs[i][1] \o <<"'", ":", " ">> \o py_str(pairs[i][2], TRUE)
         \o py_join_pairs(pairs, i + 1)

\* str(v or "")
str_or_empty(v) == IF py_truthy(v) THEN py_str(v, FALSE) ELSE <<>>

IsDigit(c) == c \in Range(DigitChars)

\* the number a string of digits spells
RECURSIVE digits_value(_)
digits_value(digits) ==
    IF digits = <<>> THEN 0
    ELSE 10 * digits_value(SubSeq(digits, 1, Len(digits) - 1))
         + (CHOOSE d \in 0..9 : DigitChars[d + 1] = digits[Len(digits)])

ConversionError(error) == [ok |-> FALSE, error |-> error]

Converted(value) == [ok |-> TRUE, value |-> value]

\* float(text) for a string: surrounding whitespace and a sign are allowed; nan, inf and
\* infinity in any case; decimal literals with digits on at least one side of an optional
\* point (fractions are kept to thousandths); anything else is a ValueError.  Exponents
\* and digit-group underscores do not occur in the texts of the model.
float_of_text(text) ==
    LET t == lower(strip(text))
        signed == t # <<>> /\ t[1] \in {"+", "-"}
        sign == IF signed /\ t[1] = "-" THEN -1 ELSE 1
        u == IF signed THEN SubSeq(t, 2, Len(t)) ELSE t
        points == {i \in DOMAIN u : u[i] = "."}
        point == IF points = {} THEN Len(u) + 1 ELSE CHOOSE i \in points : TRUE
        whole == SubSeq(u, 1, point - 1)
        frac == SubSeq(u, point + 1, Len(u))
        frac3 == SubSeq(frac \o <<"0", "0", "0">>, 1, 3)
    IN  IF u = <<"n","a","n">> THEN Converted(JNaN)
        ELSE IF u = <<"i","n","f">> \/ u = <<"i","n","f","i","n","i","t","y">>
             THEN Converted(JInf(sign))
        ELSE IF /\ Cardinality(points) <= 1
                /\ \A i \in DOMAIN u : IsDigit(u[i]) \/ u[i] = "."
                /\ Len(whole) + Len(frac) > 0
             THEN Converted(JFloat(sign * (1000 * digits_value(whole) + digits_value(frac3))))
        ELSE ConversionError("ValueError")

\* float(v)
py_float(v) ==
    CASE v.t = "int" -> Converted(JFloat(1000 * v.n))
      [] v.t = "bigint" -> ConversionError("OverflowError")
      [] v.t \in {"float", "nan", "inf"} -> Converted(v)
      [] v.t = "bool" -> Converted(JFloat(IF v.b THEN 1000 ELSE 0))
      [] v.t = "str" -> float_of_text(v.s)
      [] OTHER -> ConversionError("TypeError")

\* x < 0.0 and x > 1.0 on floats: every comparison with nan is false
float_lt_zero(x) == (x.t = "float" /\ x.milli < 0) \/ (x.t = "inf" /\ x.sign < 0)

float_gt_one(x) == (x.t = "float" /\ x.milli > 1000) \/ (x.t = "inf" /\ x.sign > 0)

(***************************************************************************)
(* json.loads and JSONDecoder.raw_decode on a text, character by           *)
(* character.  The texts of the model have no backslash escapes and no     *)
(* exponents in their numbers.                                             *)
(***************************************************************************)

ScanFail == [ok |-> FALSE]

\* a value and the position after it
Scanned(value, end) == [ok |-> TRUE, value |-> value, end |-> end]

CharAt(text, i, c) == i <= Len(text) /\ text[i] = c

LiteralAt(text, i, literal) ==
    i + Len(literal) - 1 <= Len(text) /\ SubSeq(text, i, i + Len(literal) - 1) = literal

\* the first position from i on that holds no JSON whitespace
RECURSIVE skip_ws(_, _)
skip_ws(text, i) ==
    IF i <= Len(text) /\ text[i] \in {" ", "\t", "\n"} THEN skip_ws(text, i + 1) ELSE i

\* the first position from i on that holds no digit
RECURSIVE digits_end(_, _)
digits_end(text, i) ==
    IF i <= Len(text) /\ IsDigit(text[i]) THEN digits_end(text, i + 1) ELSE i

\* py_scanstring at the opening quote i: up to the next quote; a control character
\* inside the string is an error
scan_string(text, i) ==
    LET closes == {j \in (i + 1)..Len(text) : text[j] = "\""}
        close == CHOOSE j \in closes : \A k \in closes : j <= k
        body == SubSeq(text, i + 1, close - 1)
    IN  IF closes = {} THEN ScanFail
        ELSE IF \E k \in DOMAIN body : body[k] \in {"\n", "\t", "\\"} THEN ScanFail
        ELSE Scanned(JStr(body), close + 1)

\* NUMBER_RE at i: -?(0|[1-9]\d*)(\.\d+)?
scan_number(text, i) ==
    LET negative == CharAt(text, i, "-")
        sign == IF negative THEN -1 ELSE 1
        start == IF negative THEN i + 1 ELSE i
        whole_end == IF CharAt(text, start, "0") THEN start + 1 ELSE digits_end(text, start)
        whole == digits_value(SubSeq(text, start, whole_end - 1))
        has_frac == CharAt(text, whole_end, ".") /\ digits_end(text, whole_end + 1) > whole_end + 1
        frac_end == digits_end(text, whole_end + 1)
        frac3 == SubSeq(SubSeq(text, whole_end + 1, frac_end - 1) \o <<"0", "0", "0">>, 1, 3)
    IN  IF whole_end = start THEN ScanFail
        ELSE IF has_frac
             THEN Scanned(JFloat(sign * (1000 * whole + digits_value(frac3))), frac_end)
        ELSE Scanned(JInt(sign * whole), whole_end)

\* scan_once at i; JSONObject and JSONArray from the first member or item on
RECURSIVE scan_value(_, _)
RECURSIVE scan_members(_, _, _)
RECURSIVE scan_items(_, _, _)
scan_value(text, i) ==
    IF i > Len(text) THEN ScanFail
    ELSE IF text[i] = "\"" THEN scan_string(text, i)
    ELSE IF text[i] = "{"
         THEN LET j == skip_ws(text, i + 1)
              IN  IF CharAt(text, j, "}") THEN Scanned(JDict(<<>>), j + 1)
                  ELSE scan_members(text, j, <<>>)
    ELSE IF text[i] = "["
         THEN LET j == skip_ws(text, i + 1)
              IN  IF CharAt(text, j, "]") THEN Scanned(JList(<<>>), j + 1)
                  ELSE scan_items(text, j, <<>>)
    ELSE IF LiteralAt(text, i, <<"n","u","l","l">>) THEN Scanned(JNull, i + 4)
    ELSE IF LiteralAt(text, i, <<"t","r","u","e">>) THEN Scanned(JBool(TRUE), i + 4)
    ELSE IF LiteralAt(text, i, <<"f","a","l","s","e">>) THEN Scanned(JBool(FALSE), i + 5)
    ELSE IF IsDigit(text[i]) \/ (text[i] = "-" /\ i < Len(text) /\ IsDigit(text[i + 1]))
         THEN scan_number(text, i)
    ELSE IF LiteralAt(text, i, <<"N","a","N">>) THEN Scanned(JNaN, i + 3)
    ELSE IF LiteralAt(text, i, <<"I","n","f","i","n","i","t","y">>) THEN Scanned(JInf(1), i + 8)
    ELSE IF LiteralAt(text, i, <<"-","I","n","f","i","n","i","t","y">>)
         THEN Scanned(JInf(-1), i + 9)
    ELSE ScanFail
scan_members(text, i, pairs) ==
    IF ~CharAt(text, i, "\"") THEN ScanFail
    ELSE LET key == scan_string(text, i)
             colon == skip_ws(text, key.end)
             value == scan_value(text, skip_ws(text, colon + 1))
             next == skip_ws(text, value.end)
             all == Append(pairs, <<key.value.s, value.value>>)
         IN  IF ~key.ok THEN ScanFail
             ELSE IF ~CharAt(text, colon, ":") THEN ScanFail
             ELSE IF ~value.ok THEN ScanFail
             ELSE IF CharAt(text, next, "}") THEN Scanned(JDict(all), next + 1)
             ELSE IF CharAt(text, next, ",")
                  THEN scan_members(text, skip_ws(text, next + 1), all)
             ELSE ScanFail
scan_items(text, i, items) ==
    LET value == scan_value(text, i)
        next == skip_ws(text, value.end)
        all == Append(items, value.value)
    IN  IF ~value.ok THEN ScanFail
        ELSE IF CharAt(text, next, "]") THEN Scanned(JList(all), next + 1)
        ELSE IF CharAt(text, next, ",") THEN scan_items(text, skip_ws(text, next + 1), all)
        ELSE ScanFail

\* json.loads(text): one value and nothing but whitespace around it
json_loads(text) ==
    LET value == scan_value(text, skip_ws(text, 1))
    IN  IF value.ok /\ skip_ws(text, value.end) = Len(text) + 1 THEN value ELSE ScanFail

\* decoder.raw_decode(text[index:])
raw_decode(text, index) == scan_value(text, index)

\* the positions of text whose "{" starts a value raw_decode accepts: parsed_candidates,
\* by position
candidate_positions(text) ==
    {index \in DOMAIN text : text[index] = "{" /\ raw_decode(text, index).ok}

\* the candidates that have the key "titles"
titled_positions(text, candidates) ==
    {index \in candidates : dict_has(raw_decode(text, index).value, KEY_titles)}

\* the smallest element of a non-empty set of positions
Least(S) == CHOOSE i \in S : \A j \in S : i <= j

\* the end of _extract_json without the preference for "titles"
pick_first_candidate(text, candidates, titled) ==
    IF candidates = {} THEN Raise("LLMTitleError", "LLM text does not contain JSON object.")
    ELSE Return(raw_decode(text, Least(candidates)).value)

\* the end of title_llm._extract_json: the first candidate with "titles", else the first
pick_candidate(text, candidates, titled) ==
    IF candidates = {} THEN Raise("LLMTitleError", "LLM text does not contain JSON object.")
    ELSE Return(raw_decode(text, Least(IF titled # {} THEN titled ELSE candidates)).value)

\* title_llm._extract_json on the stripped text, whole being json.loads(text)
extract_json_stripped(text, whole) ==
    IF text = <<>> THEN Raise("LLMTitleError", "LLM returned empty text.")
    ELSE IF whole.ok /\ whole.value.t = "dict" THEN Return(whole.value)
    ELSE pick_candidate(text, candidate_positions(text),
                        titled_positions(text, candidate_positions(text)))

\* title_llm._extract_json
extract_json_compute(raw_text) == extract_json_stripped(strip(raw_text), json_loads(strip(raw_text)))

\* the end of rerank_llm._extract_json: the first candidate
pool_pick_candidate(text, candidates) ==
    IF candidates = {} THEN Raise("LLMPoolError", "LLM text does not contain JSON object.")
    ELSE Return(raw_decode(text, Least(candidates)).value)

\* rerank_llm._extract_json on the stripped text, whole being json.loads(text)
pool_extract_json_stripped(text, whole) ==
    IF text = <<>> THEN Raise("LLMPoolError", "LLM returned empty text.")
    ELSE IF whole.ok /\ whole.value.t = "dict" THEN Return(whole.value)
    ELSE pool_pick_candidate(text, candidate_positions(text))

\* rerank_llm._extract_json
pool_extract_json(raw_text) ==
    pool_extract_json_stripped(strip(raw_text), json_loads(strip(raw_text)))

(***************************************************************************)
(* LLM Title Proposer: validation of the parsed payload (title_llm.py).    *)
(***************************************************************************)

TitleProposal(titles, reason, confidence) ==
    [titles |-> titles, reason |-> reason, confidence |-> confidence]

\* the for loop of _normalize_titles from item i
RECURSIVE NormalizeTitlesLoop(_, _, _, _)
NormalizeTitlesLoop(items, i, titles, seen) ==
    IF i > Len(items) THEN titles
    ELSE LET text == strip(str_or_empty(items[i]))
             normalized == collapse_whitespace(text)
             key == lower(normalized)
         IN  IF text = <<>> \/ key \in seen
             THEN NormalizeTitlesLoop(items, i + 1, titles, seen)
             ELSE NormalizeTitlesLoop(items, i + 1, Append(titles, normalized),
                                      seen \cup {key})

\* isinstance(value, list), the test as written
titles_type_ok(value) == value.t = "list"

_normalize_titles(value) ==
    IF ~titles_type_ok(value) THEN Raise("LLMTitleError", "LLM titles must be a JSON array.")
    ELSE LET titles == NormalizeTitlesLoop(value.items, 1, <<>>, {})
         IN  IF titles = <<>> THEN Raise("LLMTitleError", "LLM returned empty titles list.")
             ELSE Return(Take(titles, 3))

_validate_payload(p) ==
    LET titles == _normalize_titles(dict_get(p, KEY_titles))
        reason == strip(str_or_empty(dict_get(p, KEY_reason)))
        confidence == py_float(dict_get(p, KEY_confidence))
    IN  IF titles.kind = "raise" THEN titles
        ELSE IF reason = <<>> THEN Raise("LLMTitleError", "LLM reason is empty.")
        ELSE IF ~confidence.ok
             THEN (IF confidence.error \in {"TypeError", "ValueError"}
                   THEN Raise("LLMTitleError", "LLM confidence is missing or invalid.")
                   ELSE Raise(confidence.error, "int too large to convert to float"))
        ELSE IF float_lt_zero(confidence.value) \/ float_gt_one(confidence.value)
             THEN Raise("LLMTitleError", "LLM confidence must be in [0, 1].")
        ELSE Return(TitleProposal(titles.value, reason, confidence.value))

(***************************************************************************)
(* LLM Title Proposer: content extraction and salvage (title_llm.py).      *)
(***************************************************************************)

\* the texts handed to _extract_json in the checks
JsonTexts ==
    {LT_valid, LT_fenced, LT_truncated, LT_no_titles, LT_nan, LT_two_objects, LT_quoted,
     LT_unquoted, LT_banned, LT_five, LT_titled}

ExtractMemo == {<<text, extract_json_compute(text)>> : text \in JsonTexts}

\* title_llm._extract_json, computed once for each text of JsonTexts
_extract_json(raw_text) ==
    IF raw_text \in JsonTexts THEN (CHOOSE entry \in ExtractMemo : entry[1] = raw_text)[2]
    ELSE extract_json_compute(raw_text)

\* isinstance(v, str) and v.strip()
NonBlankStr(v) == v.t = "str" /\ strip(v.s) # <<>>

\* choices[0]["message"] as _extract_content and _extract_reasoning_text reach it:
\* ok is false when choices is not a non-empty list or the message is not a dict
first_message(response_json) ==
    LET choices == dict_get(response_json, KEY_choices)
        first == IF choices.items[1].t = "dict" THEN choices.items[1] ELSE JDict(<<>>)
        message == dict_get(first, KEY_message)
    IN  IF choices.t # "list" \/ choices.items = <<>>
        THEN [ok |-> FALSE, why |-> "LLM response has no choices."]
        ELSE IF message.t # "dict"
             THEN [ok |-> FALSE, why |-> "LLM response choice has no message."]
        ELSE [ok |-> TRUE, message |-> message]

\* _extract_content without the fallback to reasoning_content
_extract_content_primary_only(response_json) ==
    LET found == first_message(response_json)
        content == dict_get(found.message, KEY_content)
    IN  IF response_json.t # "dict"
        THEN Raise("AttributeError", "object has no attribute 'get'")
        ELSE IF ~found.ok THEN Raise("LLMTitleError", found.why)
        ELSE IF NonBlankStr(content) THEN Return(strip(content.s))
        ELSE Raise("LLMTitleError", "LLM response content is empty.")

_extract_content(response_json) ==
    LET found == first_message(response_json)
        content == dict_get(found.message, KEY_content)
        reasoning_content == dict_get(found.message, KEY_reasoning_content)
    IN  IF response_json.t # "dict"
        THEN Raise("AttributeError", "object has no attribute 'get'")
        ELSE IF ~found.ok THEN Raise("LLMTitleError", found.why)
        ELSE IF NonBlankStr(content) THEN Return(strip(content.s))
        ELSE IF NonBlankStr(reasoning_content) THEN Return(strip(reasoning_content.s))
        ELSE Raise("LLMTitleError", "LLM response content is empty.")

\* re.findall of q([^q]{6,260})q from position i, q being a quote character: a match
\* starts at a quote whose next quote is 6 to 260 characters away, and the scan resumes
\* after the closing quote; otherwise it resumes at the next character
RECURSIVE findall_quoted(_, _, _)
findall_quoted(text, q, i) ==
    LET opens == {j \in i..Len(text) : text[j] = q}
        open == Least(opens)
        closes == {j \in (open + 1)..Len(text) : text[j] = q}
        close == Least(closes)
    IN  IF opens = {} THEN <<>>
        ELSE IF closes = {} THEN <<>>
        ELSE IF close - open - 1 >= 6 /\ close - open - 1 <= 260
             THEN <<SubSeq(text, open + 1, close - 1)>> \o findall_quoted(text, q, close + 1)
        ELSE findall_quoted(text, q, open + 1)

IsLetter(c) == c \in Range(UpperChars) \cup Range(LowerChars)

\* re.findall of titled\s+([A-Z][^.:\n]{8,260}) with IGNORECASE from position i
RECURSIVE findall_titled(_, _)
findall_titled(text, i) ==
    LET word == <<"t","i","t","l","e","d">>
        starts == {j \in i..(Len(text) - 5) : lower(SubSeq(text, j, j + 5)) = word}
        start == Least(starts)
        letter == skip_ws(text, start + 6)
        stops == {j \in (letter + 1)..Len(text) : text[j] \in {".", ":", "\n"}}
        run == (IF stops = {} THEN Len(text) + 1 ELSE Least(stops)) - (letter + 1)
        taken == IF run > 260 THEN 260 ELSE run
    IN  IF starts = {} THEN <<>>
        ELSE IF letter > start + 6 /\ letter <= Len(text) /\ IsLetter(text[letter]) /\ run >= 8
             THEN <<SubSeq(text, letter, letter + taken)>>
                  \o findall_titled(text, letter + taken + 1)
        ELSE findall_titled(text, start + 1)

\* text.strip(" .,:;")
strip_punctuation(text) ==
    LET kept == {i \in DOMAIN text : text[i] \notin {" ", ".", ",", ":", ";"}}
    IN  IF kept = {} THEN <<>>
        ELSE SubSeq(text, Least(kept), CHOOSE i \in kept : \A j \in kept : j <= i)

BannedTokens ==
    {<<"k","e","y","w","o","r","d">>,
     <<"o","u","t","p","u","t"," ","f","o","r","m","a","t">>,
     <<"s","c","h","e","m","a">>,
     <<"c","o","n","s","t","r","a","i","n","t","s">>,
     <<"j","s","o","n">>,
     <<"c","o","n","f","i","d","e","n","c","e">>,
     <<"r","e","a","s","o","n">>}

_looks_like_paper_title(text) ==
    LET candidate == strip(collapse_whitespace(text))
    IN  /\ Len(candidate) >= 12
        /\ Len(candidate) <= 240
        /\ Len(split(candidate)) >= 3
        /\ ~\E token \in BannedTokens : Contains(lower(candidate), token)

\* the for loop of _extract_titles_from_text_fallback from candidate i
RECURSIVE FallbackLoop(_, _, _, _)
FallbackLoop(candidates, i, titles, seen) ==
    IF i > Len(candidates) THEN titles
    ELSE LET normalized == strip_punctuation(collapse_whitespace(candidates[i]))
             key == lower(normalized)
         IN  IF ~_looks_like_paper_title(normalized) \/ key \in seen
             THEN FallbackLoop(candidates, i + 1, titles, seen)
             ELSE FallbackLoop(candidates, i + 1, Append(titles, normalized),
                               seen \cup {key})

_extract_titles_from_text_fallback(text) ==
    LET quoted == findall_quoted(text, "\"", 1)
        single_quoted == findall_quoted(text, "'", 1)
        titled_fragments == findall_titled(text, 1)
    IN  Take(FallbackLoop(quoted \o single_quoted \o titled_fragments, 1, <<>>, {}), 3)

_extract_reasoning_text(response_json) ==
    LET found == first_message(response_json)
        reasoning == dict_get(found.message, KEY_reasoning_content)
    IN  IF ~found.ok THEN <<>>
        ELSE IF reasoning.t = "str" THEN strip(reasoning.s)
        ELSE <<>>

\* None
NoFallback == [kind |-> "return", none |-> TRUE]

_fallback_proposal_from_reasoning(response_json) ==
    LET reasoning == _extract_reasoning_text(response_json)
        titles == _extract_titles_from_text_fallback(reasoning)
    IN  IF reasoning = <<>> THEN NoFallback
        ELSE IF titles = <<>> THEN NoFallback
        ELSE [kind |-> "return", none |-> FALSE,
              value |-> TitleProposal(titles, R_truncation, JFloat(350))]

\* parsed = _extract_json(content), unless _extract_content raised
parse_content(content) ==
    IF content.kind = "return" THEN _extract_json(content.value) ELSE content

\* return _validate_payload(parsed), unless _extract_json raised
validate_parsed(parsed) ==
    IF parsed.kind = "return" THEN _validate_payload(parsed.value) ELSE parsed

\* except LLMTitleError as first_error: the fallback if there is one, else first_error
salvage(first, fallback) ==
    IF first.kind = "raise" /\ first.error = "LLMTitleError" /\ ~fallback.none
    THEN Return(fallback.value)
    ELSE first

\* the second try block of propose_titles, on the decoded response body
proposal_from_response(response_json) ==
    salvage(validate_parsed(parse_content(_extract_content(response_json))),
            _fallback_proposal_from_reasoning(response_json))

(***************************************************************************)
(* The transport of both LLM calls (title_llm.py, rerank_llm.py).          *)
(***************************************************************************)

Timeout == [kind |-> "timeout"]

ConnectionFailure == [kind |-> "connection"]

\* a response with its status code and its body: a JSON value, or NotJson
HttpResponse(status, body) == [kind |-> "response", status |-> status, body |-> body]

NotJson == [t |-> "invalid"]

\* the request payload: whose messages it carries and whether it has the thinking field
Request(messages, thinking) == [messages |-> messages, thinking |-> thinking]

retry_on_any_error(status, disable_reasoning) == status >= 400

\* response.status_code >= 400 and client_cfg.disable_reasoning
retry_wanted(status, disable_reasoning) == status >= 400 /\ disable_reasoning

\* a call that ended: the requests it posted and what it returned or raised
Ended(requests, result) == [requests |-> requests, result |-> result]

\* from the first requests.post to response.json(): the requests posted, and the decoded
\* body or the error raised; net[k] is what the k-th post meets
post_with_retry(messages, error, cfg, net) ==
    LET first == Request(messages, cfg.disable_reasoning)
        retry == Request(messages, FALSE)
        retried == net[1].kind = "response" /\ retry_wanted(net[1].status, cfg.disable_reasoning)
        posted == IF retried THEN <<first, retry>> ELSE <<first>>
        last == net[Len(posted)]
    IN  IF net[1].kind = "timeout" THEN Ended(<<first>>, Raise(error, "request timed out."))
        ELSE IF net[1].kind = "connection"
             THEN Ended(<<first>>, Raise(error, "request failed before response"))
        ELSE IF retried /\ last.kind = "timeout"
             THEN Ended(posted, Raise(error, "retry timed out."))
        ELSE IF retried /\ last.kind = "connection"
             THEN Ended(posted, Raise(error, "retry failed before response"))
        ELSE IF last.status >= 400 THEN Ended(posted, Raise(error, "request failed: HTTP"))
        ELSE IF last.body = NotJson
             THEN Ended(posted, Raise(error, "response is not valid JSON."))
        ELSE Ended(posted, Return(last.body))

propose_titles(kw, cfg, net) ==
    LET sent == post_with_retry("titles", "LLMTitleError", cfg, net)
    IN  IF strip(kw) = <<>> THEN Ended(<<>>, Raise("LLMTitleError", "Keyword is empty."))
        ELSE IF sent.result.kind = "raise" THEN sent
        ELSE Ended(sent.requests, proposal_from_response(sent.result.value))

(***************************************************************************)
(* LLM Pool Selector (rerank_llm.py) and its candidates (cli.py).          *)
(***************************************************************************)

\* the candidate ids numbered from 0
candidate_id_from_zero(index) == <<"C">> \o int_str(index - 1)

\* f"C{index}"
candidate_id(index) == <<"C">> \o int_str(index)

\* the length an abstract is cut to
ABSTRACT_LIMIT == 800

\* the last position up to i that holds no whitespace, 0 if there is none
RECURSIVE last_nonspace(_, _)
last_nonspace(text, i) ==
    IF i = 0 THEN 0 ELSE IF IsSpace(text[i]) THEN last_nonspace(text, i - 1) ELSE i

\* the first position from i on that holds no whitespace, Len(text) + 1 if there is none
RECURSIVE first_nonspace(_, _)
first_nonspace(text, i) ==
    IF i > Len(text) THEN i ELSE IF IsSpace(text[i]) THEN first_nonspace(text, i + 1) ELSE i

\* str.rstrip(): trailing whitespace removed
rstrip(text) == SubSeq(text, 1, last_nonspace(text, Len(text)))

\* str.lstrip(): leading whitespace removed
lstrip(text) == SubSeq(text, first_nonspace(text, 1), Len(text))

\* str(paper.get("abstract") or "").strip(); Paper carries no abstract
abstract_of(paper) ==
    IF "abstract" \in DOMAIN paper THEN lstrip(rstrip(paper.abstract)) ELSE <<>>

\* if len(abstract) > 800: abstract = abstract[:800].rstrip()
cut_abstract(abstract) ==
    IF Len(abstract) > ABSTRACT_LIMIT THEN rstrip(SubSeq(abstract, 1, ABSTRACT_LIMIT))
    ELSE abstract

_build_pool_candidates(list) ==
    [index \in DOMAIN list |->
        [candidate_id |-> candidate_id(index),
         title |-> strip(list[index].title),
         year |-> list[index].year,
         venue |-> strip(list[index].venue),
         doi |-> strip(get_doi(list[index])),
         citationCount |-> list[index].citationCount,
         abstract |-> cut_abstract(abstract_of(list[index])),
         url |-> strip(list[index].url)]]

PoolSelection(id, reason, confidence) ==
    [candidate_id |-> id, reason |-> reason, confidence |-> confidence]

\* rerank_llm._validate_payload
pool_validate_payload(p) ==
    LET id == strip(str_or_empty(dict_get(p, KEY_selected_candidate_id)))
        reason == strip(str_or_empty(dict_get(p, KEY_reason)))
        confidence == py_float(dict_get(p, KEY_confidence))
    IN  IF id = <<>> THEN Raise("LLMPoolError", "LLM selected_candidate_id is empty.")
        ELSE IF reason = <<>> THEN Raise("LLMPoolError", "LLM reason is empty.")
        ELSE IF ~confidence.ok
             THEN (IF confidence.error \in {"TypeError", "ValueError"}
                   THEN Raise("LLMPoolError", "LLM confidence is missing or invalid.")
                   ELSE Raise(confidence.error, "int too large to convert to float"))
        ELSE IF float_lt_zero(confidence.value) \/ float_gt_one(confidence.value)
             THEN Raise("LLMPoolError", "LLM confidence must be in [0, 1].")
        ELSE Return(PoolSelection(id, reason, confidence.value))

\* return _validate_payload(parsed), unless _extract_json raised
pool_validate_parsed(parsed) ==
    IF parsed.kind = "return" THEN pool_validate_payload(parsed.value) ELSE parsed

\* select_from_pool from message.get("content") on
selection_from_content(content) ==
    IF ~NonBlankStr(content) THEN Raise("LLMPoolError", "LLM pool response content is empty.")
    ELSE pool_validate_parsed(pool_extract_json(content.s))

\* select_from_pool from response_json.get("choices") on
selection_from_response(response_json) ==
    IF response_json.t # "dict" THEN Raise("AttributeError", "object has no attribute 'get'")
    ELSE IF ~first_message(response_json).ok
         THEN Raise("LLMPoolError", first_message(response_json).why)
    ELSE selection_from_content(dict_get(first_message(response_json).message, KEY_content))

select_from_pool(kw, titles, candidates, cfg, net) ==
    LET sent == post_with_retry("pool", "LLMPoolError", cfg, net)
    IN  IF candidates = <<>>
        THEN Ended(<<>>, Raise("LLMPoolError", "No candidates provided for pool selection."))
        ELSE IF titles = <<>>
             THEN Ended(<<>>, Raise("LLMPoolError", "No proposed titles provided for pool selection."))
        ELSE IF sent.result.kind = "raise" THEN sent
        ELSE Ended(sent.requests, selection_from_response(sent.result.value))

(***************************************************************************)
(* Title similarity (select.py).                                           *)
(***************************************************************************)

Min(a, b) == IF a < b THEN a ELSE b

\* how far a from i and b from j agree, within a[..ahi] and b[..bhi]
match_length(a, b, i, j, ahi, bhi) ==
    LET limit == Min(ahi - i, bhi - j) + 1
    IN  CHOOSE k \in 0..limit :
            /\ \A m \in 0..(k - 1) : a[i + m] = b[j + m]
            /\ k = limit \/ a[i + k] # b[j + k]

\* the block <<i, j, size>> among blocks: the longest, then the one starting earliest
\* in a, then the one starting earliest in b
earliest_longest(blocks) ==
    CHOOSE s \in blocks : \A o \in blocks :
        \/ s[3] > o[3]
        \/ s[3] = o[3] /\ s[1] < o[1]
        \/ s[3] = o[3] /\ s[1] = o[1] /\ s[2] <= o[2]

\* SequenceMatcher.find_longest_match(alo, ahi, blo, bhi) without junk, on 1-based
\* inclusive bounds
find_longest_match(a, b, alo, ahi, blo, bhi) ==
    LET blocks == {<<i, j, match_length(a, b, i, j, ahi, bhi)>> :
                      <<i, j>> \in {s \in (alo..ahi) \X (blo..bhi) : a[s[1]] = b[s[2]]}}
    IN  IF blocks = {} THEN <<alo, blo, 0>> ELSE earliest_longest(blocks)

\* the sum of the sizes of SequenceMatcher.get_matching_blocks(): the longest match, then
\* the same to its left and to its right
RECURSIVE matching_size(_, _, _, _, _, _)
split_around(a, b, alo, ahi, blo, bhi, block) ==
    IF block[3] = 0 THEN 0
    ELSE block[3]
         + matching_size(a, b, alo, block[1] - 1, blo, block[2] - 1)
         + matching_size(a, b, block[1] + block[3], ahi, block[2] + block[3], bhi)

matching_size(a, b, alo, ahi, blo, bhi) ==
    IF alo > ahi \/ blo > bhi THEN 0
    ELSE split_around(a, b, alo, ahi, blo, bhi, find_longest_match(a, b, alo, ahi, blo, bhi))

\* a float that is the quotient of two integers, kept as <<numerator, denominator>>
Quotient(n, d) == <<n, d>>

\* SequenceMatcher(None, a, b).ratio() = 2.0 * matches / (len(a) + len(b))
ratio(a, b) == Quotient(2 * matching_size(a, b, 1, Len(a), 1, Len(b)), Len(a) + Len(b))

\* len(left_tokens & right_tokens) / max(1, len(left_tokens | right_tokens))
token_overlap(left_norm, right_norm) ==
    Quotient(Cardinality(Tokens(left_norm) \cap Tokens(right_norm)),
             Max(1, Cardinality(Tokens(left_norm) \cup Tokens(right_norm))))

\* max(x, y) of two quotients: y only if it is greater
max_quotient(x, y) == IF y[1] * x[2] > x[1] * y[2] THEN y ELSE x

both_normalized(left_norm, right_norm) ==
    IF left_norm = <<>> \/ right_norm = <<>> THEN Quotient(0, 1)
    ELSE IF left_norm = right_norm THEN Quotient(1, 1)
    ELSE max_quotient(ratio(left_norm, right_norm), token_overlap(left_norm, right_norm))

\* select._title_similarity
title_similarity(left, right) == both_normalized(normalize_text(left), normalize_text(right))

\* similarity < min_title_similarity, the minimum in thousandths
similarity_below(similarity, min_milli) == similarity[1] * 1000 < min_milli * similarity[2]

(***************************************************************************)
(* Provider search (cli.py).                                               *)
(***************************************************************************)

\* what one provider call can meet: the records found, HTTP 429 from Semantic Scholar,
\* any other failure
Found(list) == [kind |-> "found", papers |-> list]

RateLimited == [kind |-> "rate_limited"]

Failure == [kind |-> "failure"]

\* the tuple (papers, search_source) a search returns
Searched(list, source) == [kind |-> "return", papers |-> list, source |-> source]

RateLimitError == Raise("SemanticScholarRateLimitError", "Semantic Scholar rate limited (429).")

\* the records of a Semantic Scholar answer inside try/except SemanticScholarRateLimitError: pass
unless_rate_limited(answer) == IF answer.kind = "rate_limited" THEN <<>> ELSE answer.papers

\* answers.s2[t], answers.openalex[t], answers.arxiv[t] is what the provider answers to
\* the t-th query
_search_candidates(provider, answers) ==
    CASE provider = "all" ->
            Searched(_merge_and_dedupe_papers(unless_rate_limited(answers.s2[1])
                                              \o answers.openalex[1].papers
                                              \o answers.arxiv[1].papers), "all")
      [] provider = "s2" ->
            IF answers.s2[1].kind = "rate_limited" THEN RateLimitError
            ELSE Searched(answers.s2[1].papers, "s2")
      [] provider = "arxiv" -> Searched(answers.arxiv[1].papers, "arxiv")
      [] provider = "openalex" -> Searched(answers.openalex[1].papers, "openalex")
      [] OTHER ->
            IF answers.s2[1].kind = "rate_limited"
            THEN Searched(answers.openalex[1].papers, "openalex")
            ELSE Searched(answers.s2[1].papers, "s2")

\* for title in titles[t:]: merged.extend(s2 unless rate limited, openalex, arxiv)
RECURSIVE AllProvidersLoop(_, _, _, _)
AllProvidersLoop(answers, n, t, merged) ==
    IF t > n THEN merged
    ELSE AllProvidersLoop(answers, n, t + 1,
                          merged \o unless_rate_limited(answers.s2[t])
                                 \o answers.openalex[t].papers \o answers.arxiv[t].papers)

\* a loop that stops after its first query
OneProviderLoopOnce(answer, n, t, merged) == merged \o answer[t].papers

\* for title in titles[t:]: merged.extend(provider search)
RECURSIVE OneProviderLoop(_, _, _, _)
OneProviderLoop(answer, n, t, merged) ==
    IF t > n THEN merged
    ELSE OneProviderLoop(answer, n, t + 1, merged \o answer[t].papers)

\* some Semantic Scholar query of the loop raises SemanticScholarRateLimitError
s2_rate_limited(answers, n) == \E t \in 1..n : answers.s2[t].kind = "rate_limited"

_search_titles_pool(titles, provider, answers) ==
    LET n == Len(titles)
    IN  CASE titles = <<>> ->
                Searched(<<>>, IF provider # "auto" THEN provider ELSE "openalex")
          [] titles # <<>> /\ provider = "all" ->
                Searched(_merge_and_dedupe_papers(AllProvidersLoop(answers, n, 1, <<>>)), "all")
          [] titles # <<>> /\ provider = "auto" ->
                IF s2_rate_limited(answers, n)
                THEN Searched(_merge_and_dedupe_papers(
                                  OneProviderLoop(answers.openalex, n, 1, <<>>)), "openalex")
                ELSE Searched(_merge_and_dedupe_papers(
                                  OneProviderLoop(answers.s2, n, 1, <<>>)), "s2")
          [] titles # <<>> /\ provider = "arxiv" ->
                Searched(_merge_and_dedupe_papers(OneProviderLoop(answers.arxiv, n, 1, <<>>)),
                         "arxiv")
          [] titles # <<>> /\ provider = "s2" ->
                IF s2_rate_limited(answers, n) THEN RateLimitError
                ELSE Searched(_merge_and_dedupe_papers(OneProviderLoop(answers.s2, n, 1, <<>>)),
                              "s2")
          [] OTHER ->
                Searched(_merge_and_dedupe_papers(OneProviderLoop(answers.openalex, n, 1, <<>>)),
                         "openalex")

(***************************************************************************)
(* Backup Metadata Merger: the merge and the enrichment (cli.py).          *)
(***************************************************************************)

\* an optional record that is not None
Backup(paper) == [kind |-> "return", none |-> FALSE, value |-> paper]

fill_text_from_backup(current, incoming) == IF incoming # <<>> THEN incoming ELSE current

\* if (not current or str(current).strip() == "") and incoming: a text field
fill_text(current, incoming) ==
    IF strip(current) = <<>> /\ incoming # <<>> THEN incoming ELSE current

\* the same for the year, 0 when unknown
fill_year(current, incoming) == IF current = 0 /\ incoming # 0 THEN incoming ELSE current

\* combined = dict(backup_ids); combined.update(primary_ids)
combined_ids(primary_ids, backup_ids) ==
    [k \in DOMAIN primary_ids \cup DOMAIN backup_ids |->
        IF k \in DOMAIN primary_ids THEN primary_ids[k] ELSE backup_ids[k]]

S_http == <<"h","t","t","p">>

S_Z == <<"Z">>

\* documentType after the merge: the backup's tag, stripped and upper-cased, when it is a
\* tag other than Z and the primary has none or Z
merged_type(current, incoming) ==
    IF /\ upper(strip(incoming)) # <<>>
       /\ upper(strip(incoming)) # S_Z
       /\ upper(strip(current)) \in {<<>>, S_Z}
    THEN upper(strip(incoming))
    ELSE current

\* if not merged.get("authors") and backup.get("authors")
merged_authors(current, incoming) ==
    IF current = <<>> /\ incoming # <<>> THEN incoming ELSE current

\* the loop over primary.pdfUrls, then backup.pdfUrls, from position i of their
\* concatenation
RECURSIVE PdfUrlLoop(_, _, _, _)
PdfUrlLoop(values, i, combined, seen) ==
    IF i > Len(values) THEN combined
    ELSE IF strip(values[i]) = <<>> \/ ~StartsWith(strip(values[i]), S_http)
         THEN PdfUrlLoop(values, i + 1, combined, seen)
    ELSE IF lower(strip(values[i])) \in seen THEN PdfUrlLoop(values, i + 1, combined, seen)
    ELSE PdfUrlLoop(values, i + 1, Append(combined, strip(values[i])),
                    seen \cup {lower(strip(values[i]))})

\* the union with the backup's URLs first
combined_pdf_urls_backup_first(primary_urls, backup_urls) ==
    PdfUrlLoop(backup_urls \o primary_urls, 1, <<>>, {})

combined_pdf_urls(primary_urls, backup_urls) ==
    PdfUrlLoop(primary_urls \o backup_urls, 1, <<>>, {})

\* if combined_pdf_urls: merged["pdfUrls"] = ...; if not merged.get("pdfUrl"): ...
with_pdf_urls(merged, combined) ==
    IF combined = <<>> THEN merged
    ELSE [merged EXCEPT !.pdfUrls = combined,
                        !.pdfUrl = IF @ = <<>> THEN combined[1] ELSE @]

\* _merge_with_backup; a text field is "" for None, openAccessPdf is its url
_merge_with_backup(prim, backup) ==
    IF backup.none THEN prim
    ELSE with_pdf_urls(
             [paperId |-> prim.paperId,
              title |-> fill_text(prim.title, backup.value.title),
              year |-> fill_year(prim.year, backup.value.year),
              venue |-> fill_text(prim.venue, backup.value.venue),
              volume |-> fill_text(prim.volume, backup.value.volume),
              issue |-> fill_text(prim.issue, backup.value.issue),
              pages |-> fill_text(prim.pages, backup.value.pages),
              url |-> fill_text(prim.url, backup.value.url),
              rawType |-> fill_text(prim.rawType, backup.value.rawType),
              pdfUrl |-> fill_text(prim.pdfUrl, backup.value.pdfUrl),
              openAccessPdf |-> fill_text(prim.openAccessPdf, backup.value.openAccessPdf),
              documentType |-> merged_type(prim.documentType, backup.value.documentType),
              externalIds |-> combined_ids(prim.externalIds, backup.value.externalIds),
              authors |-> merged_authors(prim.authors, backup.value.authors),
              pdfUrls |-> prim.pdfUrls,
              citationCount |-> Max(prim.citationCount, backup.value.citationCount)],
             combined_pdf_urls(prim.pdfUrls, backup.value.pdfUrls))

\* backup after the search branch of the try block
backup_by_title(sel, search) ==
    IF strip(sel.title) = <<>> THEN ReturnNone
    ELSE IF search.kind = "failure" THEN ReturnNone
    ELSE _pick_best_backup_match(sel, search.papers)

\* the try block with the DOI lookup alone under the except clause
backup_found_after_lookup(sel, env) ==
    IF get_doi(sel) # <<>> /\ env.doi_lookup.kind # "failure" /\ env.doi_lookup.papers # <<>>
    THEN Backup(env.doi_lookup.papers[1])
    ELSE IF env.search.kind = "failure" THEN ReturnNone
    ELSE backup_by_title(sel, env.search)

\* backup after the try block of _enrich_selected_metadata: env.doi_lookup is what
\* get_paper_by_doi meets, env.search what the other provider's title search meets
backup_found(sel, env) ==
    IF get_doi(sel) # <<>> /\ env.doi_lookup.kind = "failure" THEN ReturnNone
    ELSE IF get_doi(sel) # <<>> /\ env.doi_lookup.papers # <<>>
         THEN Backup(env.doi_lookup.papers[1])
    ELSE backup_by_title(sel, env.search)

\* the functions of the other primary provider that _enrich_selected_metadata calls
backup_queries(sel, source, env) ==
    LET other == IF source = "openalex" THEN "s2" ELSE "openalex"
        doi == get_doi(sel)
        lookup == IF doi # <<>> THEN <<[provider |-> other, call |-> "get_paper_by_doi"]>>
                  ELSE <<>>
        search == IF /\ doi = <<>> \/ (env.doi_lookup.kind # "failure"
                                       /\ env.doi_lookup.papers = <<>>)
                     /\ strip(sel.title) # <<>>
                  THEN <<[provider |-> other, call |-> "search_papers"]>>
                  ELSE <<>>
    IN  IF source \in {"openalex", "s2"} THEN lookup \o search ELSE <<>>

\* the try block of _enrich_selected_metadata raises: the DOI lookup fails, or it found
\* nothing and the title search fails
backup_raised(sel, env) ==
    \/ get_doi(sel) # <<>> /\ env.doi_lookup.kind = "failure"
    \/ /\ get_doi(sel) = <<>> \/ (env.doi_lookup.kind # "failure" /\ env.doi_lookup.papers = <<>>)
       /\ strip(sel.title) # <<>>
       /\ env.search.kind = "failure"

_enrich_selected_metadata(sel, source, env) ==
    IF source \in {"openalex", "s2"} THEN _merge_with_backup(sel, backup_found(sel, env))
    ELSE sel

(***************************************************************************)
(* PDF download with the arXiv fallback (cli.py).                          *)
(***************************************************************************)

\* what download_pdf_for_paper can end with: the path of the saved file, or
\* PDFDownloadError with its message
Saved == [kind |-> "saved"]

Failed(message) == [kind |-> "failed", message |-> message]

_should_try_arxiv_fallback(error_text) ==
    IF error_text = <<>> THEN TRUE
    ELSE \/ Contains(lower(error_text), S_418)
         \/ Contains(lower(error_text), S_non_pdf)
         \/ Contains(lower(error_text), S_no_pdf)

\* best: the first candidate whose normalized title is the target, else candidates[0]
best_arxiv(candidates, target_norm) ==
    LET exact == {i \in DOMAIN candidates : normalize_text(candidates[i].title) = target_norm}
    IN  IF exact = {} THEN candidates[1] ELSE candidates[Least(exact)]

_merge_arxiv_fallback(sel, title, answer) ==
    IF answer.kind = "failure" THEN sel
    ELSE IF answer.papers = <<>> THEN sel
    ELSE _merge_with_backup(sel, Backup(best_arxiv(answer.papers, normalize_text(title))))

(***************************************************************************)
(* The run (cli.py): its steps, from one external call to the next.        *)
(***************************************************************************)

\* if not keyword_papers, if not merged
is_empty_never(list) == FALSE

is_empty(list) == list = <<>>

\* the locals of run() and what it has written and called, as one record
Frame ==
    [pc |-> pc, returned |-> returned, papers |-> papers, search_source |-> search_source,
     title_proposal |-> title_proposal, proposed_titles |-> proposed_titles, pool |-> pool,
     pool_selection |-> pool_selection, selected |-> selected, pdf |-> pdf,
     written |-> written, calls |-> calls, queried |-> queried, caught |-> caught,
     network |-> network,
     requests_sent |-> requests_sent]

\* the run ends with an exception
abort(f, error) == [f EXCEPT !.pc = "aborted", !.returned = error]

called(f, name) == [f EXCEPT !.calls = Append(@, name)]

\* except (LLMTitleError, LLMPoolError, ValueError) as error: raise SystemExit(str(error));
\* any other exception leaves run() as it is
except_llm_errors(error) ==
    IF error.error \in {"LLMTitleError", "LLMPoolError", "ValueError"}
    THEN Raise("SystemExit", error.message)
    ELSE error

\* rule mode after pick_best_candidate
rule_picked(f, picked) ==
    IF picked.kind = "raise"
    THEN abort(f, Raise(picked.error, "No candidate was selected from search results."))
    ELSE [f EXCEPT !.selected = picked.value, !.pc = "enrich"]

\* rule mode after _search_candidates
rule_searched(f, kw, searched) ==
    IF searched.kind = "raise" THEN abort(f, searched)
    ELSE IF is_empty(searched.papers)
         THEN abort([f EXCEPT !.papers = searched.papers, !.search_source = searched.source],
                    Raise("SystemExit", "No papers returned from search provider"))
    ELSE rule_picked(called([f EXCEPT !.papers = searched.papers,
                                      !.search_source = searched.source],
                            "pick_best_candidate"),
                     pick_best_candidate(kw, searched.papers))

\* the else branch of run(): from _search_candidates to pick_best_candidate
rule_branch(f, kw, provider, answers) ==
    rule_searched(called(f, "_search_candidates"), kw, _search_candidates(provider, answers))

\* LLM mode after propose_titles
llm_proposed(f, ended) ==
    IF ended.result.kind = "raise"
    THEN abort([f EXCEPT !.requests_sent = @ \o ended.requests],
               except_llm_errors(ended.result))
    ELSE [f EXCEPT !.requests_sent = @ \o ended.requests,
                   !.title_proposal = ended.result.value,
                   !.proposed_titles = ended.result.value.titles,
                   !.pc = "search_titles"]

\* LLM mode: load_llm_config and propose_titles
llm_propose(f, kw, cfg, net) ==
    IF ~cfg.loadable THEN abort(f, Raise("SystemExit", "Missing LLM config"))
    ELSE llm_proposed(called([f EXCEPT !.network = net], "propose_titles"),
                      propose_titles(kw, cfg, net))

\* LLM mode after _search_titles_pool
llm_searched(f, kw, size, searched) ==
    IF searched.kind = "raise" THEN abort(f, except_llm_errors(searched))
    ELSE IF is_empty(searched.papers)
         THEN abort([f EXCEPT !.papers = searched.papers, !.search_source = searched.source],
                    Raise("SystemExit", "No papers returned from title search provider"))
    ELSE [f EXCEPT !.papers = searched.papers,
                   !.search_source = searched.source,
                   !.pool = _build_validation_pool(kw, searched.papers, size,
                                                   f.proposed_titles),
                   !.pc = "select"]

\* LLM mode: _search_titles_pool and _build_validation_pool
llm_search(f, kw, provider, size, answers) ==
    llm_searched(called(f, "_search_titles_pool"), kw, size,
                 _search_titles_pool(f.proposed_titles, provider, answers))

\* the index of the first pool candidate with the selected id; 0 stands for None
selected_index(candidates, id) ==
    LET matching == {idx \in DOMAIN candidates : candidates[idx].candidate_id = id}
    IN  IF matching = {} THEN 0 ELSE Least(matching)

\* LLM mode after title_similarity
llm_compared(f, similarity, min_milli) ==
    IF similarity_below(similarity, min_milli)
    THEN abort(f, Raise("SystemExit", "Selected title similarity"))
    ELSE [f EXCEPT !.pc = "enrich"]

\* LLM mode after the lookup of the selected id
llm_matched(f, idx, min_milli) ==
    IF idx = 0 THEN abort(f, Raise("SystemExit", "LLM selected invalid candidate_id"))
    ELSE llm_compared([f EXCEPT !.selected = f.pool[idx]],
                      title_similarity(f.pool[idx].title, f.proposed_titles[1]), min_milli)

\* LLM mode after select_from_pool
llm_selected(f, ended, min_milli) ==
    IF ended.result.kind = "raise"
    THEN abort([f EXCEPT !.requests_sent = @ \o ended.requests],
               except_llm_errors(ended.result))
    ELSE llm_matched([f EXCEPT !.requests_sent = @ \o ended.requests,
                               !.pool_selection = ended.result.value],
                     selected_index(_build_pool_candidates(f.pool),
                                    ended.result.value.candidate_id),
                     min_milli)

\* LLM mode: select_from_pool, the lookup of the selected id and the similarity gate
llm_select(f, kw, cfg, net, min_milli) ==
    llm_selected(called([f EXCEPT !.network = net], "select_from_pool"),
                 select_from_pool(kw, f.proposed_titles, _build_pool_candidates(f.pool),
                                  cfg, net),
                 min_milli)

\* except Exception: backup = None
except_exception(f, raised) ==
    IF raised
    THEN [f EXCEPT !.caught = Append(@, [by |-> "_enrich_selected_metadata",
                                         error |-> "Exception"])]
    ELSE f

\* selected = _enrich_selected_metadata(...)
enrich(f, env) ==
    [except_exception(called(f, "_enrich_selected_metadata"),
                      f.search_source \in {"openalex", "s2"} /\ backup_raised(f.selected, env))
     EXCEPT
        !.queried = @ \o backup_queries(f.selected, f.search_source, env),
        !.selected = _enrich_selected_metadata(f.selected, f.search_source, env),
        !.pc = "pdf"]

\* a download_pdf_for_paper that saved the file
saved(f) ==
    [f EXCEPT !.pdf = [pdf_path |-> TRUE, pdf_error |-> <<>>],
              !.written = Append(@, [file |-> "pdf", paper |-> f.selected]),
              !.pc = "cite"]

\* the download of the except branch, after _merge_arxiv_fallback
second_download(f, second) ==
    IF second.kind = "saved" THEN saved(f)
    ELSE [f EXCEPT !.pdf = [pdf_path |-> FALSE, pdf_error |-> second.message],
                   !.pc = "cite"]

\* selected = _merge_arxiv_fallback(...) and the download that follows it: arxiv is what
\* the arXiv search meets, second what the download meets
arxiv_fallback(f, arxiv, second) ==
    second_download(
        called(called([f EXCEPT !.selected = _merge_arxiv_fallback(f.selected,
                                                                   f.selected.title, arxiv)],
                      "_merge_arxiv_fallback"),
               "download_pdf_for_paper"),
        second)

\* if pdf_arxiv_fallback and _should_try_arxiv_fallback(pdf_error), whatever the text
try_fallback_always(fallback, message) == fallback

\* if pdf_arxiv_fallback and _should_try_arxiv_fallback(pdf_error)
try_fallback(fallback, message) == fallback /\ _should_try_arxiv_fallback(message)

\* except PDFDownloadError as error: pdf_error = str(error), then the test of the fallback
first_failed(f, fallback, message) ==
    [f EXCEPT !.pdf = [pdf_path |-> FALSE, pdf_error |-> message],
              !.pc = IF try_fallback(fallback, message) THEN "fallback" ELSE "cite"]

\* if download_pdf: the first download_pdf_for_paper; first is what it meets
download(f, wanted, fallback, first) ==
    IF ~wanted THEN [f EXCEPT !.pc = "cite"]
    ELSE IF first.kind = "saved" THEN saved(called(f, "download_pdf_for_paper"))
    ELSE first_failed(called(f, "download_pdf_for_paper"), fallback, first.message)

\* build_citation_text, append_daily_citation and the return
cite(f, source) ==
    [called(f, "append_daily_citation") EXCEPT
        !.written = Append(@, [file |-> "citation", paper |-> f.selected,
                               search_provider |-> source]),
        !.returned = Return(f.pdf),
        !.pc = "finished"]

(***************************************************************************)
(* Specifications: each function applied to inputs drawn from its catalog. *)
(***************************************************************************)

\* run()'s locals before it assigns them
NoArgs == [kind |-> "none"]

NoProposal == [kind |-> "none"]

NoSelection == [kind |-> "none"]

NoPdf == [pdf_path |-> FALSE, pdf_error |-> <<>>]

\* no run in progress
RunIdle ==
    /\ args = NoArgs
    /\ search_source = ""
    /\ title_proposal = NoProposal
    /\ pool = <<>>
    /\ pool_selection = NoSelection
    /\ selected = IdlePaper
    /\ pdf = NoPdf
    /\ written = <<>>
    /\ calls = <<>>
    /\ queried = <<>>
    /\ caught = <<>>

\* no LLM call in progress
LlmIdle ==
    /\ payload = JNull
    /\ client_cfg = [disable_reasoning |-> FALSE]
    /\ network = <<>>
    /\ requests_sent = <<>>

InitDedupe ==
    /\ pc = "start"
    /\ papers \in ListsOver(DedupeCatalog, MaxPapers)
    /\ keyword = <<>>
    /\ proposed_titles = <<>>
    /\ validation_candidates = 0
    /\ primary = Paper(<<>>, <<>>, 0, 0, NoIds, <<>>)
    /\ returned = NoResult
    /\ LlmIdle
    /\ RunIdle
    /\ IoIdle
    /\ S2Idle
    /\ heap = <<>>

merge_and_dedupe_call ==
    /\ pc = "start"
    /\ pc' = "done"
    /\ returned' = [kind |-> "return", value |-> _merge_and_dedupe_papers(papers)]
    /\ UNCHANGED <<keyword, papers, proposed_titles, validation_candidates, primary>>
    /\ UNCHANGED llm_vars
    /\ UNCHANGED run_vars
    /\ UNCHANGED io_vars
    /\ UNCHANGED s2_vars
    /\ UNCHANGED heap

NextDedupe == merge_and_dedupe_call

SpecDedupe == InitDedupe /\ [][NextDedupe]_vars

InitSelect ==
    /\ pc = "start"
    /\ keyword = K_DETR
    /\ papers \in ListsOver(SelectCatalog, MaxSelect)
    /\ proposed_titles = <<>>
    /\ validation_candidates = 0
    /\ primary = IdlePaper
    /\ returned = NoResult
    /\ LlmIdle
    /\ RunIdle
    /\ IoIdle
    /\ S2Idle
    /\ heap = <<>>

pick_best_candidate_call ==
    /\ pc = "start"
    /\ pc' = "done"
    /\ returned' = pick_best_candidate(keyword, papers)
    /\ UNCHANGED <<keyword, papers, proposed_titles, validation_candidates, primary>>
    /\ UNCHANGED llm_vars
    /\ UNCHANGED run_vars
    /\ UNCHANGED io_vars
    /\ UNCHANGED s2_vars
    /\ UNCHANGED heap

NextSelect == pick_best_candidate_call

SpecSelect == InitSelect /\ [][NextSelect]_vars

\* keywords that are a phrase of a title, a part of a word of it, its words in another
\* order, half in it, and without letters or digits
ScoreKeywords == {K_DETR, K_focal, K_etr, K_loss_focal, K_focal_DETR, T_punct}

ScoreTitles == {T_DETR, T_DN_DETR, T_Focal, T_FocalSurvey, T_ResNet, <<>>}

\* the externalIds maps of the provider adapters: none, a DOI, an arXiv id under the key
\* ArXiv (with or without a DOI), an arXiv DOI; and a map with the lowercase key
ScoreIds ==
    {NoIds, DoiIds(Doi_x), DoiIds(Doi_arxiv),
     [k \in {"DOI", "ArXiv"} |-> IF k = "DOI" THEN Doi_x ELSE Arxiv_1706],
     [k \in {"ArXiv"} |-> Arxiv_1706], [k \in {"arxiv"} |-> Arxiv_1706]}

ScoreCatalog ==
    {Paper(<<"P">>, t, y, c, ids, v) :
        t \in ScoreTitles, y \in {0, 2017}, c \in {0, 50}, ids \in ScoreIds,
        v \in {<<>>, V_arXiv, V_CVPR}}

InitScore ==
    /\ pc = "start"
    /\ keyword \in ScoreKeywords
    /\ papers = <<>>
    /\ proposed_titles = <<>>
    /\ validation_candidates = 0
    /\ primary \in ScoreCatalog
    /\ returned = NoResult
    /\ LlmIdle
    /\ RunIdle
    /\ IoIdle
    /\ S2Idle
    /\ heap = <<>>

query_relevance_score_call ==
    /\ pc = "start"
    /\ pc' = "relevance"
    /\ returned' = Return(_query_relevance_score(keyword, primary.title))
    /\ UNCHANGED <<keyword, papers, proposed_titles, validation_candidates, primary>>
    /\ UNCHANGED llm_vars
    /\ UNCHANGED run_vars
    /\ UNCHANGED io_vars
    /\ UNCHANGED s2_vars
    /\ UNCHANGED heap

score_paper_call ==
    /\ pc = "start"
    /\ pc' = "scored"
    /\ returned' = Return(score_paper(keyword, primary))
    /\ UNCHANGED <<keyword, papers, proposed_titles, validation_candidates, primary>>
    /\ UNCHANGED llm_vars
    /\ UNCHANGED run_vars
    /\ UNCHANGED io_vars
    /\ UNCHANGED s2_vars
    /\ UNCHANGED heap

NextScore == query_relevance_score_call \/ score_paper_call

SpecScore == InitScore /\ [][NextScore]_vars

\* the candidate list is what _search_titles_pool returns: already merged and deduped
InitPool ==
    /\ pc = "start"
    /\ keyword = K_focal
    /\ papers \in {list \in ListsOver(PoolCatalog, MaxPoolPapers) :
                      _merge_and_dedupe_papers(list) = list}
    /\ proposed_titles \in ProposalCatalog
    /\ validation_candidates \in 0..MaxCandidates
    /\ primary = IdlePaper
    /\ returned = NoResult
    /\ LlmIdle
    /\ RunIdle
    /\ IoIdle
    /\ S2Idle
    /\ heap = <<>>

build_validation_pool_call ==
    /\ pc = "start"
    /\ pc' = "done"
    /\ returned' = [kind |-> "return",
                    value |-> _build_validation_pool(keyword, papers, validation_candidates,
                                                     proposed_titles)]
    /\ UNCHANGED <<keyword, papers, proposed_titles, validation_candidates, primary>>
    /\ UNCHANGED llm_vars
    /\ UNCHANGED run_vars
    /\ UNCHANGED io_vars
    /\ UNCHANGED s2_vars
    /\ UNCHANGED heap

NextPool == build_validation_pool_call

SpecPool == InitPool /\ [][NextPool]_vars

InitBackup ==
    /\ pc = "start"
    /\ keyword = <<>>
    /\ papers \in ListsOver(BackupCatalog, MaxBackup)
    /\ proposed_titles = <<>>
    /\ validation_candidates = 0
    /\ primary \in PrimaryCatalog
    /\ returned = NoResult
    /\ LlmIdle
    /\ RunIdle
    /\ IoIdle
    /\ S2Idle
    /\ heap = <<>>

pick_best_backup_match_call ==
    /\ pc = "start"
    /\ pc' = "done"
    /\ returned' = _pick_best_backup_match(primary, papers)
    /\ UNCHANGED <<keyword, papers, proposed_titles, validation_candidates, primary>>
    /\ UNCHANGED llm_vars
    /\ UNCHANGED run_vars
    /\ UNCHANGED io_vars
    /\ UNCHANGED s2_vars
    /\ UNCHANGED heap

NextBackup == pick_best_backup_match_call

SpecBackup == InitBackup /\ [][NextBackup]_vars

\* a key the payload does not have
Absent == [t |-> "absent"]

\* the values of `titles` the validation is checked on
TitlesCatalog ==
    {Absent, JNull, JStr(T_Attention), JList(<<>>),
     JList(<<JStr(T_Attention_padded)>>),
     JList(<<JStr(T_Attention), JStr(T_attention_lower), JStr(T_Focal)>>),
     JList(<<JStr(T_Focal), JStr(T_Attention_padded), JStr(T_Attention)>>),
     JList(<<JStr(T_Attention), JStr(T_Focal), JStr(T_ResNet), JStr(T_MaskRCNN)>>),
     JList(<<JStr(<<>>), JStr(<<" ", " ">>)>>),
     JList(<<JNull, JStr(T_Focal)>>),
     JList(<<JInt(123)>>),
     JList(<<JBool(TRUE)>>)}

ReasonCatalog == {Absent, JNull, JStr(<<>>), JStr(<<" ", " ">>), JStr(R_seminal_padded), JInt(5)}

ConfidenceCatalog ==
    {Absent, JNull, JFloat(900), JFloat(0), JInt(1), JInt(2), JFloat(1001), JFloat(-1),
     JNaN, JInf(1), JBigInt, JBool(TRUE), JStr(N_half), JStr(N_one_padded), JStr(N_abc),
     JStr(N_nan), JList(<<>>)}

FieldPair(key, v) == IF v.t = "absent" THEN <<>> ELSE << <<key, v>> >>

PayloadOf(titles, reason, confidence) ==
    JDict(FieldPair(KEY_titles, titles) \o FieldPair(KEY_reason, reason)
          \o FieldPair(KEY_confidence, confidence))

InitValidate ==
    /\ pc = "start"
    /\ keyword = <<>>
    /\ papers = <<>>
    /\ proposed_titles = <<>>
    /\ validation_candidates = 0
    /\ primary = IdlePaper
    /\ returned = NoResult
    /\ payload \in {PayloadOf(t, r, c) :
                       t \in TitlesCatalog, r \in ReasonCatalog, c \in ConfidenceCatalog}
    /\ client_cfg = [disable_reasoning |-> FALSE]
    /\ network = <<>>
    /\ requests_sent = <<>>
    /\ RunIdle
    /\ IoIdle
    /\ S2Idle
    /\ heap = <<>>

validate_payload_call ==
    /\ pc = "start"
    /\ pc' = "done"
    /\ returned' = _validate_payload(payload)
    /\ UNCHANGED <<keyword, papers, proposed_titles, validation_candidates, primary>>
    /\ UNCHANGED <<payload, client_cfg, network, requests_sent>>
    /\ UNCHANGED run_vars
    /\ UNCHANGED io_vars
    /\ UNCHANGED s2_vars
    /\ UNCHANGED heap

NextValidate == validate_payload_call

SpecValidate == InitValidate /\ [][NextValidate]_vars

\* {"choices": [{"message": {"content": ..., "reasoning_content": ...}}]}
ChatResponse(content, reasoning_content) ==
    JDict(<< <<KEY_choices,
               JList(<<JDict(<< <<KEY_message,
                                  JDict(FieldPair(KEY_content, content)
                                        \o FieldPair(KEY_reasoning_content,
                                                     reasoning_content))>> >>)>>)>> >>)

\* the primary contents: none, not a string, blank, a JSON object alone or inside prose,
\* a truncated object, an object the validation rejects
ContentCatalog ==
    {Absent, JNull, JInt(5), JStr(<<>>), JStr(<<" ">>), JStr(LT_valid), JStr(LT_fenced),
     JStr(LT_truncated), JStr(LT_no_titles), JStr(LT_nan), JStr(LT_two_objects)}

\* the reasoning texts: none, not a string, with and without title-like spans, and a
\* JSON object
ReasoningCatalog ==
    {Absent, JInt(7), JStr(<<>>), JStr(LT_quoted), JStr(LT_unquoted), JStr(LT_banned),
     JStr(LT_five), JStr(LT_titled), JStr(LT_valid), JStr(LT_truncated)}

\* bodies without a message
ShapelessBodies ==
    {JDict(<<>>),
     JDict(<< <<KEY_choices, JList(<<>>)>> >>),
     JDict(<< <<KEY_choices, JStr(LT_valid)>> >>),
     JDict(<< <<KEY_choices, JList(<<JInt(5)>>)>> >>),
     JDict(<< <<KEY_choices, JList(<<JDict(<< <<KEY_message, JStr(LT_valid)>> >>)>>)>> >>),
     JList(<<>>), JNull, JStr(LT_valid)}

ResponseCatalog ==
    {ChatResponse(c, r) : c \in ContentCatalog, r \in ReasoningCatalog} \cup ShapelessBodies

InitPropose ==
    /\ pc = "start"
    /\ keyword = K_DETR
    /\ papers = <<>>
    /\ proposed_titles = <<>>
    /\ validation_candidates = 0
    /\ primary = IdlePaper
    /\ returned = NoResult
    /\ payload = JNull
    /\ client_cfg = [disable_reasoning |-> FALSE]
    /\ network \in {<<HttpResponse(200, body)>> : body \in ResponseCatalog}
    /\ requests_sent = <<>>
    /\ RunIdle
    /\ IoIdle
    /\ S2Idle
    /\ heap = <<>>

propose_titles_call ==
    /\ pc = "start"
    /\ pc' = "done"
    /\ LET ended == propose_titles(keyword, client_cfg, network)
       IN  /\ requests_sent' = ended.requests
           /\ returned' = ended.result
    /\ UNCHANGED <<keyword, papers, proposed_titles, validation_candidates, primary>>
    /\ UNCHANGED <<payload, client_cfg, network>>
    /\ UNCHANGED run_vars
    /\ UNCHANGED io_vars
    /\ UNCHANGED s2_vars
    /\ UNCHANGED heap

NextPropose == propose_titles_call

SpecPropose == InitPropose /\ [][NextPropose]_vars

\* what precedes the first value of a text: nothing, prose, a brace that opens no object
ExtractPrefixes == {<<>>, <<"x"," ">>, <<"{"," ">>}

\* the first value: objects without and with "titles", an object holding one with
\* "titles", an array, a truncated object
ExtractFirsts == {<<"{","\"","a","\"",":"," ","1","}">>, <<"{","\"","t","i","t","l","e","s","\"",":"," ","[","]","}">>, <<"{","\"","a","\"",":"," ","{","\"","t","i","t","l","e","s","\"",":"," ","[","]","}","}">>, <<"[","1","]">>, <<"{","\"","a","\"",":">>}

\* what follows it: nothing, an object with "titles", an object without, prose
ExtractSeconds == {<<>>, <<" ","{","\"","t","i","t","l","e","s","\"",":"," ","[","\"","t","\"","]","}">>, <<" ","{","\"","b","\"",":"," ","2","}">>, <<" ","y">>}

\* the texts handed to _extract_json: the pieces put together, blank texts, and the
\* answers of the proposer's checks
ExtractTexts ==
    {p \o f \o s : p \in ExtractPrefixes, f \in ExtractFirsts, s \in ExtractSeconds}
    \cup {<<>>, <<" ", "\n">>} \cup JsonTexts

InitExtract ==
    /\ pc = "start"
    /\ keyword = K_DETR
    /\ papers = <<>>
    /\ proposed_titles = <<>>
    /\ validation_candidates = 0
    /\ primary = IdlePaper
    /\ returned = NoResult
    /\ payload \in {JStr(text) : text \in ExtractTexts}
    /\ client_cfg = [disable_reasoning |-> FALSE]
    /\ network = <<>>
    /\ requests_sent = <<>>
    /\ RunIdle
    /\ IoIdle
    /\ S2Idle
    /\ heap = <<>>

extract_json_call ==
    /\ pc = "start"
    /\ pc' = "extracted"
    /\ returned' = _extract_json(payload.s)
    /\ UNCHANGED <<keyword, papers, proposed_titles, validation_candidates, primary>>
    /\ UNCHANGED llm_vars
    /\ UNCHANGED run_vars
    /\ UNCHANGED io_vars
    /\ UNCHANGED s2_vars
    /\ UNCHANGED heap

NextExtract == extract_json_call

SpecExtract == InitExtract /\ [][NextExtract]_vars

StatusCodes == {200, 399, 400, 500}

\* what one requests.post can meet
TransportOutcomes ==
    {Timeout, ConnectionFailure}
    \cup {HttpResponse(status, body) :
            status \in StatusCodes,
            body \in {ChatResponse(JStr(LT_valid), Absent),
                      ChatResponse(JStr(LT_pool_valid), Absent), NotJson}}

InitTransport ==
    /\ pc = "start"
    /\ keyword \in {K_DETR, <<" ">>}
    /\ papers \in {<<>>, <<Paper(Id_W1, T_Attention, 2017, 9000, NoIds, <<>>)>>}
    /\ proposed_titles \in {<<>>, <<T_Attention>>}
    /\ validation_candidates = 0
    /\ primary = IdlePaper
    /\ returned = NoResult
    /\ payload = JNull
    /\ client_cfg \in [disable_reasoning : BOOLEAN]
    /\ network \in [1..2 -> TransportOutcomes]
    /\ requests_sent = <<>>
    /\ RunIdle
    /\ IoIdle
    /\ S2Idle
    /\ heap = <<>>

select_from_pool_call ==
    /\ pc = "start"
    /\ pc' = "done"
    /\ LET ended == select_from_pool(keyword, proposed_titles, _build_pool_candidates(papers),
                                     client_cfg, network)
       IN  /\ requests_sent' = ended.requests
           /\ returned' = ended.result
    /\ UNCHANGED <<keyword, papers, proposed_titles, validation_candidates, primary>>
    /\ UNCHANGED <<payload, client_cfg, network>>
    /\ UNCHANGED run_vars
    /\ UNCHANGED io_vars
    /\ UNCHANGED s2_vars
    /\ UNCHANGED heap

NextTransport == propose_titles_call \/ select_from_pool_call

SpecTransport == InitTransport /\ [][NextTransport]_vars

\* the scalar fields _merge_with_backup fills, the year apart
TextFields == {"title", "venue", "volume", "issue", "pages", "url", "rawType", "pdfUrl"}

ScalarFields == TextFields \cup {"year"}

U_pdf == <<"h","t","t","p",":","/","/","a","/","x",".","p","d","f">>

\* a record whose scalar fields are given by kind: "empty" (None or ""), "blank"
\* (whitespace only) or "set"; mark tells the primary's values from the backup's
FieldText(kind, mark) ==
    CASE kind = "empty" -> <<>>
      [] kind = "blank" -> <<" ">>
      [] OTHER -> <<mark>>

FieldYear(kind, year) == IF kind = "set" THEN year ELSE 0

MergeRecord(kinds, mark, year, ids, pdf_urls) ==
    [Paper(<<mark>>, FieldText(kinds["title"], mark), FieldYear(kinds["year"], year), 0, ids,
           FieldText(kinds["venue"], mark))
     EXCEPT !.volume = FieldText(kinds["volume"], mark),
            !.issue = FieldText(kinds["issue"], mark),
            !.pages = FieldText(kinds["pages"], mark),
            !.url = FieldText(kinds["url"], mark),
            !.rawType = FieldText(kinds["rawType"], mark),
            !.pdfUrl = FieldText(kinds["pdfUrl"], mark),
            !.pdfUrls = pdf_urls]

\* every field of one kind, but for one field
KindsBut(base, field, kind) == [f \in ScalarFields |-> IF f = field THEN kind ELSE base]

MergeKinds ==
    {KindsBut(base, field, kind) :
        base \in {"empty", "set"}, field \in ScalarFields, kind \in {"empty", "blank", "set"}}

ArxivIds(doi, arxiv) == [k \in {"DOI", "ArXiv"} |-> IF k = "DOI" THEN doi ELSE arxiv]

MagIds(doi, mag) == [k \in {"DOI", "MAG"} |-> IF k = "DOI" THEN doi ELSE mag]

MergePrimaries ==
    {MergeRecord(kinds, "p", 2017, ids, urls) :
        kinds \in MergeKinds, ids \in {NoIds, ArxivIds(Doi_x, <<"1">>)},
        urls \in {<<>>, <<U_pdf>>}}

MergeBackups ==
    {MergeRecord(KindsBut(base, field, kind), "b", 2018, ids, <<>>) :
        base \in {"empty", "set"}, field \in {"title", "year", "pages"},
        kind \in {"empty", "blank", "set"}, ids \in {NoIds, MagIds(Doi_X, <<"2">>)}}

\* _merge_with_backup(primary, backup): papers holds the backup, or nothing for None
InitMerge ==
    /\ pc = "start"
    /\ keyword = <<>>
    /\ primary \in MergePrimaries
    /\ papers \in {<<>>} \cup {<<backup>> : backup \in MergeBackups}
    /\ proposed_titles = <<>>
    /\ validation_candidates = 0
    /\ returned = NoResult
    /\ LlmIdle
    /\ RunIdle
    /\ IoIdle
    /\ S2Idle
    /\ heap = <<>>

merge_with_backup_call ==
    /\ pc = "start"
    /\ pc' = "done"
    /\ returned' = Return(_merge_with_backup(primary,
                                             IF papers = <<>> THEN ReturnNone
                                             ELSE Backup(papers[1])))
    /\ UNCHANGED <<keyword, papers, proposed_titles, validation_candidates, primary>>
    /\ UNCHANGED llm_vars
    /\ UNCHANGED run_vars
    /\ UNCHANGED io_vars
    /\ UNCHANGED s2_vars
    /\ UNCHANGED heap

NextMerge == merge_with_backup_call

SpecMerge == InitMerge /\ [][NextMerge]_vars

U_PDF == <<"h","t","t","p",":","/","/","A","/","X",".","P","D","F">>

U_other == <<"h","t","t","p","s",":","/","/","b","/","y",".","p","d","f">>

\* the pdfUrls lists the provider adapters emit: stripped values that start with http,
\* no two equal case-insensitively
AdapterUrlLists ==
    {list \in ListsOver({U_pdf, U_PDF, U_other}, 2) :
        \A a, b \in DOMAIN list : a # b => lower(list[a]) # lower(list[b])}

\* a record with its PDF URL candidates and its citation count, 0 where the provider
\* gave none
UrlRecord(mark, cites, pdf_urls) ==
    [Paper(<<mark>>, <<mark>>, 2017, cites, NoIds, <<>>) EXCEPT !.pdfUrls = pdf_urls]

\* _merge_with_backup on records that differ in PDF URLs and citation counts
InitMergeUrls ==
    /\ pc = "start"
    /\ keyword = <<>>
    /\ primary \in {UrlRecord("p", c, urls) : c \in {0, 50, 300}, urls \in AdapterUrlLists}
    /\ papers \in {<<>>} \cup {<<UrlRecord("b", c, urls)>> :
                                  c \in {0, 50, 9000}, urls \in AdapterUrlLists}
    /\ proposed_titles = <<>>
    /\ validation_candidates = 0
    /\ returned = NoResult
    /\ LlmIdle
    /\ RunIdle
    /\ IoIdle
    /\ S2Idle
    /\ heap = <<>>

SpecMergeUrls == InitMergeUrls /\ [][NextMerge]_vars

\* the records the providers of a run answer with
R_focal_s2 == Paper(<<"H","1">>, T_Focal, 2017, 50, NoIds, <<>>)

R_focal_openalex == Paper(<<"H","2">>, T_FOCAL, 2017, 200, DoiIds(Doi_x), <<>>)

R_survey == Paper(<<"F","1">>, T_FocalSurvey, 2019, 9000, DoiIds(Doi_x), <<>>)

R_resnet == Paper(<<"F","2">>, T_ResNet, 2016, 300, NoIds, <<>>)

R_backup ==
    [Paper(<<"B","1">>, T_FOCAL, 2017, 300, DoiIds(Doi_X), V_CVPR)
     EXCEPT !.volume = <<"4","2">>, !.pages = <<"3","1","8","-","3","2","7">>]

(***************************************************************************)
(* The objects of a call: the dicts and lists a function allocates and writes. *)
(***************************************************************************)

\* the fields of a record that hold a dict or a list of their own
Nested == {"externalIds", "pdfUrls", "authors"}

\* a record as objects from position base + 1: its externalIds, its pdfUrls, its authors,
\* then the dict that refers to them
record_objects(base, paper) ==
    <<paper.externalIds, paper.pdfUrls, paper.authors,
      [f \in DOMAIN paper |->
          IF f = "externalIds" THEN base + 1
          ELSE IF f = "pdfUrls" THEN base + 2
          ELSE IF f = "authors" THEN base + 3
          ELSE paper[f]]>>

\* the records list[1..n] as objects, one after the other
RECURSIVE heap_of_list(_, _)
heap_of_list(list, n) ==
    IF n = 0 THEN <<>>
    ELSE heap_of_list(list, n - 1) \o record_objects(4 * (n - 1), list[n])

\* the heap when a function is called with primary and papers: the record primary, the
\* records of papers, then the list papers
heap_at_call(prim, list) ==
    Append(heap_of_list(<<prim>> \o list, Len(list) + 1),
           [k \in DOMAIN list |-> 4 * (k + 1)])

\* the argument primary: the dict of the first record laid out
primary_ref == Len(record_objects(0, primary))

\* the argument papers (or candidates)
papers_ref == 4 * (Len(papers) + 1) + 1

\* the record at reference r as a value, its nested dict and lists read through
deref(h, r) == [f \in DOMAIN h[r] |-> IF f \in Nested THEN h[h[r][f]] ELSE h[r][f]]

\* the list at reference r as a list of values
deref_list(h, r) == [k \in DOMAIN h[r] |-> deref(h, h[r][k])]

\* merged = primary: the same dict under another name
dict_alias(h, r) == [heap |-> h, ref |-> r]

\* merged = dict(primary): a new dict with the same values, the nested objects shared
dict_copy(h, r) == [heap |-> Append(h, h[r]), ref |-> Len(h) + 1]

\* merged[field] = ... for the fields that hold a text or a number
store_fields(h, r, value) ==
    [h EXCEPT ![r] = [f \in DOMAIN @ |-> IF f \in Nested THEN @[f] ELSE value[f]]]

\* merged[field] = a dict or a list built by the function
store_new(h, r, field, object) == [Append(h, object) EXCEPT ![r][field] = Len(h) + 1]

\* _merge_with_backup on the heap h: p is primary, b is backup, 0 for None
_merge_with_backup_objects(h, p, b) ==
    IF b = 0 THEN [heap |-> h, ref |-> p]
    ELSE LET merged == dict_copy(h, p)
             value == _merge_with_backup(deref(h, p), Backup(deref(h, b)))
             filled == store_fields(merged.heap, merged.ref, value)
             with_ids ==
                 IF DOMAIN deref(h, p).externalIds \cup DOMAIN deref(h, b).externalIds # {}
                 THEN store_new(filled, merged.ref, "externalIds", value.externalIds)
                 ELSE filled
             with_authors ==
                 IF deref(h, p).authors = <<>> /\ deref(h, b).authors # <<>>
                 THEN [with_ids EXCEPT ![merged.ref].authors = h[b].authors]
                 ELSE with_ids
         IN  [heap |-> IF combined_pdf_urls(deref(h, p).pdfUrls, deref(h, b).pdfUrls) # <<>>
                       THEN store_new(with_authors, merged.ref, "pdfUrls", value.pdfUrls)
                       ELSE with_authors,
              ref |-> merged.ref]

\* the position of the first record of list equal to paper
first_equal(list, paper) ==
    CHOOSE i \in DOMAIN list : list[i] = paper /\ \A j \in 1..(i - 1) : list[j] # paper

\* deduped.append(paper), keep.append(paper): a new list of the records kept, each the
\* object it was read from
new_list_of(h, r, kept) ==
    [heap |-> Append(h, [k \in DOMAIN kept |-> h[r][first_equal(deref_list(h, r), kept[k])]]),
     ref |-> Len(h) + 1]

_merge_and_dedupe_papers_objects(h, r) ==
    new_list_of(h, r, _merge_and_dedupe_papers(deref_list(h, r)))

_build_validation_pool_objects(h, kw, r, n, titles) ==
    new_list_of(h, r, _build_validation_pool(kw, deref_list(h, r), n, titles))

\* candidates.append({...}): a new dict for each record, then the list of them
_build_pool_candidates_objects(h, r) ==
    [heap |-> Append(h \o _build_pool_candidates(deref_list(h, r)),
                     [k \in DOMAIN h[r] |-> Len(h) + k]),
     ref |-> Len(h) + Len(h[r]) + 1]

\* return best_paper: the object read from papers, 0 when the loop met none
pick_best_candidate_objects(h, kw, r) ==
    [heap |-> h,
     ref |-> IF PickLoop(kw, deref_list(h, r), 1, 0) = 0 THEN 0
             ELSE h[r][PickLoop(kw, deref_list(h, r), 1, 0)]]

\* return best_item: the object read from candidates, 0 for None
_pick_best_backup_match_objects(h, p, r) ==
    [heap |-> h,
     ref |-> IF _pick_best_backup_match(deref(h, p), deref_list(h, r)).none THEN 0
             ELSE h[r][BackupLoop(deref(h, p), deref_list(h, r), 1, 0)]]

A_Lin == <<"L","i","n">>

\* records with and without identifiers, PDF URLs and authors
ObjectPrimaries ==
    {R_focal_s2, [R_focal_s2 EXCEPT !.pdfUrls = <<U_pdf>>],
     [R_survey EXCEPT !.authors = <<A_Lin>>]}

ObjectRecords ==
    {[R_backup EXCEPT !.pdfUrls = <<U_other>>, !.authors = <<A_Lin>>], R_focal_openalex,
     R_resnet}

\* a function is called with the keyword, the record primary and the list papers
InitObjects ==
    /\ pc = "start"
    /\ keyword \in {K_focal, K_etr}
    /\ primary \in ObjectPrimaries
    /\ papers \in ListsOver(ObjectRecords, 2)
    /\ proposed_titles = <<T_Focal>>
    /\ validation_candidates \in {1, 2}
    /\ returned = NoResult
    /\ LlmIdle
    /\ RunIdle
    /\ IoIdle
    /\ S2Idle
    /\ heap = heap_at_call(primary, papers)

\* the call returns the reference result.ref and leaves the heap result.heap
returns_object(result, ended) ==
    /\ pc' = ended
    /\ heap' = result.heap
    /\ returned' = Return(result.ref)
    /\ UNCHANGED <<keyword, papers, proposed_titles, validation_candidates, primary>>
    /\ UNCHANGED llm_vars
    /\ UNCHANGED run_vars
    /\ UNCHANGED io_vars
    /\ UNCHANGED s2_vars

merge_and_dedupe_objects_call ==
    /\ pc = "start"
    /\ returns_object(_merge_and_dedupe_papers_objects(heap, papers_ref), "deduped")

build_validation_pool_objects_call ==
    /\ pc = "start"
    /\ returns_object(_build_validation_pool_objects(heap, keyword, papers_ref,
                                                     validation_candidates, proposed_titles),
                      "pooled")

build_pool_candidates_objects_call ==
    /\ pc = "start"
    /\ returns_object(_build_pool_candidates_objects(heap, papers_ref), "projected")

pick_best_candidate_objects_call ==
    /\ pc = "start"
    /\ returns_object(pick_best_candidate_objects(heap, keyword, papers_ref), "picked")

pick_best_backup_match_objects_call ==
    /\ pc = "start"
    /\ returns_object(_pick_best_backup_match_objects(heap, primary_ref, papers_ref), "matched")

\* _merge_with_backup(primary, backup): backup is the first record of papers, None when
\* there is none
merge_with_backup_objects_call ==
    /\ pc = "start"
    /\ returns_object(_merge_with_backup_objects(heap, primary_ref,
                                                 IF papers = <<>> THEN 0 ELSE heap[papers_ref][1]),
                      "merged")

NextObjects ==
    \/ merge_and_dedupe_objects_call
    \/ build_validation_pool_objects_call
    \/ build_pool_candidates_objects_call
    \/ pick_best_candidate_objects_call
    \/ pick_best_backup_match_objects_call
    \/ merge_with_backup_objects_call

SpecObjects == InitObjects /\ [][NextObjects]_vars

S2Answers == {RateLimited, Found(<<>>), Found(<<R_focal_s2>>), Found(<<R_focal_s2, R_resnet>>)}

OpenAlexAnswers == {Found(<<>>), Found(<<R_focal_openalex>>)}

ArxivAnswers == {Found(<<>>), Found(<<R_survey>>)}

\* what the providers answer to n queries
ProviderAnswers(n) ==
    [s2 : [1..n -> S2Answers], openalex : [1..n -> OpenAlexAnswers],
     arxiv : [1..n -> ArxivAnswers]]

\* what the DOI lookup and the title search of the enrichment meet
EnrichAnswers ==
    [doi_lookup : {Failure, Found(<<>>), Found(<<R_backup>>)},
     search : {Failure, Found(<<>>), Found(<<R_backup>>), Found(<<R_resnet>>)}]

DownloadOutcomes ==
    {Saved, Failed(M_no_candidate_url), Failed(M_http_418), Failed(M_non_pdf),
     Failed(M_timed_out)}

FallbackAnswers == {Failure, Found(<<>>), Found(<<R_survey, R_backup>>)}

\* what the endpoint answers to the title request: one title, two titles, titles the
\* validation rejects, a body that is no JSON, a JSON body that is no object, an error
\* status and then a proposal, no answer
TitleExchanges ==
    {<<HttpResponse(200, ChatResponse(JStr(LT_focal), Absent)), Timeout>>,
     <<HttpResponse(200, ChatResponse(JStr(LT_resnet_focal), Absent)), Timeout>>,
     <<HttpResponse(200, ChatResponse(JStr(LT_no_titles), Absent)), Timeout>>,
     <<HttpResponse(200, NotJson), Timeout>>,
     <<HttpResponse(200, JList(<<>>)), Timeout>>,
     <<HttpResponse(500, NotJson), HttpResponse(200, ChatResponse(JStr(LT_focal), Absent))>>,
     <<Timeout, Timeout>>}

\* what the endpoint answers to the pool request
PoolExchanges ==
    {<<HttpResponse(200, ChatResponse(JStr(LT_pool_valid), Absent)), Timeout>>,
     <<HttpResponse(200, ChatResponse(JStr(LT_pool_second), Absent)), Timeout>>,
     <<HttpResponse(200, ChatResponse(JStr(LT_pool_unknown), Absent)), Timeout>>,
     <<HttpResponse(200, ChatResponse(JStr(LT_pool_no_id), Absent)), Timeout>>,
     <<HttpResponse(200, JNull), Timeout>>,
     <<HttpResponse(500, NotJson),
       HttpResponse(200, ChatResponse(JStr(LT_pool_valid), Absent))>>,
     <<ConnectionFailure, Timeout>>}

\* the most titles a pool search is given
MaxTitles == 2

\* _search_candidates(keyword, ...) and _search_titles_pool(titles, ...) on their own:
\* network holds what each provider answers to each query
InitSearch ==
    /\ pc = "start"
    /\ keyword = K_focal
    /\ papers = <<>>
    /\ proposed_titles \in {<<>>, <<T_Focal>>, <<T_Focal, T_ResNet>>}
    /\ validation_candidates = 0
    /\ primary = IdlePaper
    /\ returned = NoResult
    /\ payload = JNull
    /\ client_cfg = [disable_reasoning |-> FALSE, loadable |-> FALSE]
    /\ network \in ProviderAnswers(MaxTitles)
    /\ requests_sent = <<>>
    /\ args \in [provider : {"all", "auto", "s2", "openalex", "arxiv"}]
    /\ search_source = ""
    /\ title_proposal = NoProposal
    /\ pool = <<>>
    /\ pool_selection = NoSelection
    /\ selected = IdlePaper
    /\ pdf = NoPdf
    /\ written = <<>>
    /\ calls = <<>>
    /\ queried = <<>>
    /\ caught = <<>>
    /\ IoIdle
    /\ S2Idle
    /\ heap = <<>>

search_candidates_call ==
    /\ pc = "start"
    /\ pc' = "done"
    /\ returned' = _search_candidates(args.provider, network)
    /\ calls' = <<"_search_candidates">>
    /\ UNCHANGED <<keyword, papers, proposed_titles, validation_candidates, primary>>
    /\ UNCHANGED llm_vars
    /\ UNCHANGED <<args, search_source, title_proposal, pool, pool_selection, selected, pdf,
                   written, queried, caught>>
    /\ UNCHANGED io_vars
    /\ UNCHANGED s2_vars
    /\ UNCHANGED heap

search_titles_pool_call ==
    /\ pc = "start"
    /\ pc' = "done"
    /\ returned' = _search_titles_pool(proposed_titles, args.provider, network)
    /\ calls' = <<"_search_titles_pool">>
    /\ UNCHANGED <<keyword, papers, proposed_titles, validation_candidates, primary>>
    /\ UNCHANGED llm_vars
    /\ UNCHANGED <<args, search_source, title_proposal, pool, pool_selection, selected, pdf,
                   written, queried, caught>>
    /\ UNCHANGED io_vars
    /\ UNCHANGED s2_vars
    /\ UNCHANGED heap

NextSearch ==
    \/ search_candidates_call
    \/ search_titles_pool_call

SpecSearch == InitSearch /\ [][NextSearch]_vars

\* REFERENCE_INDEX_PATTERN = ^\[(\d+)\]\s+ matches at the start of text
has_reference_index(text) ==
    /\ Len(text) >= 4
    /\ text[1] = "["
    /\ digits_end(text, 2) > 2
    /\ digits_end(text, 2) + 1 <= Len(text)
    /\ text[digits_end(text, 2)] = "]"
    /\ IsSpace(text[digits_end(text, 2) + 1])

\* int(match.group(1))
reference_index(text) == digits_value(SubSeq(text, 2, digits_end(text, 2) - 1))

\* for line in file_obj: the lines of the content from position i, cur being the line read
\* so far; a last line without newline is a line too
RECURSIVE LinesFrom(_, _, _)
LinesFrom(content, i, cur) ==
    IF i > Len(content) THEN (IF cur = <<>> THEN <<>> ELSE <<cur>>)
    ELSE IF content[i] = "\n" THEN <<cur>> \o LinesFrom(content, i + 1, <<>>)
    ELSE LinesFrom(content, i + 1, Append(cur, content[i]))

file_lines(content) == LinesFrom(content, 1, <<>>)

\* a file of the output directory: missing, or its content
NoFile == [exists |-> FALSE, content |-> <<>>]

FileOf(content) == [exists |-> TRUE, content |-> content]

\* a numbering that starts again at 1 for every append
first_reference_index(file) == 1

_next_reference_index(file) ==
    IF ~file.exists THEN 1
    ELSE LET lines == file_lines(file.content)
             found == {reference_index(strip(lines[i])) :
                          i \in {j \in DOMAIN lines : has_reference_index(strip(lines[j]))}}
         IN  (IF found = {} THEN 0 ELSE CHOOSE n \in found : \A k \in found : k <= n) + 1

_with_reference_index(citation_text, index) ==
    LET text == strip(citation_text)
    IN  IF text = <<>> THEN <<>>
        ELSE IF has_reference_index(text) THEN text \o <<"\n">>
        ELSE <<"[">> \o int_str(index) \o <<"]", " ">> \o text \o <<"\n">>

\* the daily file after append_daily_citation(output_dir, citation_text)
append_daily_citation(file, citation_text) ==
    LET numbered == _with_reference_index(citation_text, _next_reference_index(file))
        needs_newline == /\ file.exists
                         /\ Len(file.content) > 0
                         /\ file.content[Len(file.content)] # "\n"
    IN  IF numbered = <<>> THEN file
        ELSE FileOf(file.content \o (IF needs_newline THEN <<"\n">> ELSE <<>>) \o numbered)

\* the most appends to one daily file
MaxAppends == 3

CT_A == <<"A",".">>

CT_B_newline == <<" ","B",".","\n">>

CT_blank == <<" ">>

CT_indexed == <<"[","7","]"," ","C",".">>

CT_two_lines == <<"D",".","\n","[","4","]"," ","E",".">>

CT_bracket == <<"[","x","]"," ","F",".">>

CitationTexts == {<<>>, CT_blank, CT_A, CT_B_newline, CT_indexed, CT_two_lines, CT_bracket}

\* append_daily_citation called again and again on one day: the daily file is missing or
\* empty at first; written holds the texts handed in
InitCite ==
    /\ pc = "start"
    /\ keyword = <<>>
    /\ papers = <<>>
    /\ proposed_titles = <<>>
    /\ validation_candidates = 0
    /\ primary = IdlePaper
    /\ returned = NoResult
    /\ LlmIdle
    /\ RunIdle
    /\ files \in {[daily |-> NoFile], [daily |-> FileOf(<<>>)]}
    /\ stdout = <<>>
    /\ exit_status = -1
    /\ S2Idle
    /\ heap = <<>>

append_daily_citation_call ==
    /\ Len(written) < MaxAppends
    /\ \E citation_text \in CitationTexts :
          /\ files' = [files EXCEPT !.daily = append_daily_citation(@, citation_text)]
          /\ written' = Append(written, [file |-> "citation", text |-> citation_text])
    /\ pc' = "appended"
    /\ UNCHANGED <<keyword, papers, proposed_titles, validation_candidates, primary, returned>>
    /\ UNCHANGED llm_vars
    /\ UNCHANGED <<args, search_source, title_proposal, pool, pool_selection, selected, pdf,
                   calls, queried, caught>>
    /\ UNCHANGED <<stdout, exit_status>>
    /\ UNCHANGED s2_vars
    /\ UNCHANGED heap

NextCite == append_daily_citation_call

SpecCite == InitCite /\ [][NextCite]_vars

\* _to_str(value): str(value or "").strip()
_to_str(value) == strip(str_or_empty(value))

\* _to_bool(value)
_to_bool(value) ==
    IF value.t = "bool" THEN value.b
    ELSE lower(_to_str(value)) \in {<<"1">>, <<"t","r","u","e">>, <<"y","e","s">>, <<"o","n">>}

PH_LLM == <<"Y","O","U","R","_","L","L","M","_","A","P","I","_","K","E","Y">>

PH_S2 == <<"Y","O","U","R","_","S","2","_","A","P","I","_","K","E","Y">>

PH_MAIL == <<"y","o","u","@","e","x","a","m","p","l","e",".","c","o","m">>

_clear_placeholder(value) ==
    IF _to_str(value) \in {PH_LLM, PH_S2, PH_MAIL} THEN <<>> ELSE _to_str(value)

\* merged[key] = value: an existing key keeps its place, a new one goes last
dict_set(d, key, value) ==
    IF dict_has(d, key)
    THEN JDict([i \in DOMAIN d.pairs |->
                   IF d.pairs[i][1] = key THEN <<key, value>> ELSE d.pairs[i]])
    ELSE JDict(Append(d.pairs, <<key, value>>))

\* merged = dict(base); merged.update(override)
shallow_merge_dict(base, override) ==
    JDict(SelectSeq(base.pairs, LAMBDA pair : ~dict_has(override, pair[1])) \o override.pairs)

\* the loop of _deep_merge_dict from the i-th item of override on
RECURSIVE DeepMergeLoop(_, _, _)
DeepMergeLoop(merged, override, i) ==
    IF i > Len(override.pairs) THEN merged
    ELSE LET key == override.pairs[i][1]
             override_value == override.pairs[i][2]
             base_value == dict_get(merged, key)
         IN  DeepMergeLoop(
                 dict_set(merged, key,
                          IF base_value.t = "dict" /\ override_value.t = "dict"
                          THEN DeepMergeLoop(base_value, override_value, 1)
                          ELSE override_value),
                 override, i + 1)

_deep_merge_dict(base, override) == DeepMergeLoop(base, override, 1)

\* _load_json_object(path) on a file that exists
_load_json_object(file) ==
    IF file.content = NotJson
    THEN Raise("RuntimeError", "Failed to read config file")
    ELSE IF file.content.t # "dict"
    THEN Raise("RuntimeError", "Config file must be a JSON object")
    ELSE Return(file.content)

\* d.get(key) if isinstance(d.get(key), dict) else {}
dict_or_empty(d, key) == IF dict_get(d, key).t = "dict" THEN dict_get(d, key) ELSE JDict(<<>>)

\* obj.get(key) or raw.get(key)
nested_or_flat(obj, raw, key) ==
    IF py_truthy(dict_get(obj, key)) THEN dict_get(obj, key) ELSE dict_get(raw, key)

\* obj.get(key) if key in obj else raw.get(key)
nested_else_flat(obj, raw, key) ==
    IF dict_has(obj, key) THEN dict_get(obj, key) ELSE dict_get(raw, key)

\* the AppConfig built from the merged object
app_config(raw, source_parts) ==
    LET llm_obj == dict_or_empty(raw, "llm")
        providers_obj == dict_or_empty(raw, "providers")
    IN  [llm_base_url |-> _clear_placeholder(nested_or_flat(llm_obj, raw, "base_url")),
         llm_api_key |-> _clear_placeholder(nested_or_flat(llm_obj, raw, "api_key")),
         llm_model |-> _clear_placeholder(nested_or_flat(llm_obj, raw, "model")),
         llm_disable_reasoning |-> _to_bool(nested_else_flat(llm_obj, raw,
                                                             "disable_reasoning")),
         llm_system_prompt |-> _clear_placeholder(nested_or_flat(llm_obj, raw,
                                                                 "system_prompt")),
         s2_api_key |-> _clear_placeholder(nested_else_flat(providers_obj, raw,
                                                            "s2_api_key")),
         openalex_email |-> _clear_placeholder(nested_else_flat(providers_obj, raw,
                                                                "openalex_email")),
         source_path |-> source_parts]

\* load_app_config(): fs.example is config.example.json, fs.local the file that
\* PAPERFETCH_CONFIG_FILE names (configured) or config.local.json
load_app_config(fs, configured) ==
    LET has_local == fs.local.exists
        default_raw == IF fs.example.exists THEN _load_json_object(fs.example)
                       ELSE Return(JDict(<<>>))
        override_raw == IF has_local THEN _load_json_object(fs.local) ELSE Return(JDict(<<>>))
        source_parts == (IF fs.example.exists THEN <<"config.example.json">> ELSE <<>>)
                        \o (IF has_local THEN <<"config.local.json">> ELSE <<>>)
    IN  IF configured /\ ~has_local THEN Raise("RuntimeError", "Config file not found")
        ELSE IF default_raw.kind = "raise" THEN default_raw
        ELSE IF override_raw.kind = "raise" THEN override_raw
        ELSE Return(app_config(_deep_merge_dict(default_raw.value, override_raw.value),
                               IF source_parts = <<>> THEN <<"config.local.json">>
                               ELSE source_parts))

CV_url == <<"h","t","t","p","s",":","/","/","x","/","v","1","/">>

CV_real == <<"r","e","a","l","-","k","e","y">>

CV_model == <<"m","1">>

CV_prompt == <<"p">>

CV_flat == <<"k","0">>

CV_mail == <<"a","@","b">>

\* the example file of the repository's test, a flat one, an empty object
ExampleConfigs ==
    {NoFile,
     FileOf(JDict(<<>>)),
     FileOf(JDict(<< <<"llm", JDict(<< <<"base_url", JStr(CV_url)>>,
                                       <<"api_key", JStr(PH_LLM)>>,
                                       <<"model", JStr(CV_model)>>,
                                       <<"disable_reasoning", JBool(TRUE)>>,
                                       <<"system_prompt", JStr(CV_prompt)>> >>)>>,
                     <<"providers", JDict(<< <<"s2_api_key", JStr(PH_S2)>>,
                                             <<"openalex_email", JStr(PH_MAIL)>> >>)>> >>)),
     FileOf(JDict(<< <<"api_key", JStr(CV_flat)>>, <<"model", JStr(CV_model)>>,
                     <<"s2_api_key", JStr(PH_S2)>>, <<"llm", JStr(CV_flat)>> >>)),
     FileOf(JList(<<>>))}

LocalConfigs ==
    {NoFile,
     FileOf(NotJson),
     FileOf(JStr(CV_real)),
     FileOf(JDict(<<>>)),
     FileOf(JDict(<< <<"llm", JDict(<< <<"api_key", JStr(CV_real)>> >>)>> >>)),
     FileOf(JDict(<< <<"llm", JDict(<< <<"api_key", JStr(<<>>)>>,
                                       <<"model", JStr(<<" ">> \o PH_LLM \o <<" ">>)>>,
                                       <<"disable_reasoning", JStr(<<"o","f","f">>)>> >>)>>,
                     <<"providers", JDict(<< <<"openalex_email", JStr(CV_mail)>> >>)>> >>)),
     FileOf(JDict(<< <<"api_key", JStr(CV_real)>>, <<"openalex_email", JStr(PH_MAIL)>> >>)),
     FileOf(JDict(<< <<"llm", JStr(CV_real)>> >>)),
     FileOf(JDict(<< <<"providers", JDict(<< <<"s2_api_key", JNull>> >>)>>,
                     <<"llm", JDict(<< <<"disable_reasoning", JInt(1)>> >>)>> >>)),
     FileOf(JDict(<< <<"providers", JDict(<< <<"s2_api_key", JStr(CV_real)>>,
                                             <<"openalex_email", JStr(CV_mail)>> >>)>>,
                     <<"llm", JDict(<< <<"base_url", JStr(CV_url)>>,
                                       <<"system_prompt", JStr(PH_S2)>> >>)>> >>))}

\* load_app_config() in a working directory with or without the two files; args tells
\* whether PAPERFETCH_CONFIG_FILE is set
InitConfig ==
    /\ pc = "start"
    /\ keyword = <<>>
    /\ papers = <<>>
    /\ proposed_titles = <<>>
    /\ validation_candidates = 0
    /\ primary = IdlePaper
    /\ returned = NoResult
    /\ LlmIdle
    /\ args \in [config_file_env : BOOLEAN]
    /\ search_source = ""
    /\ title_proposal = NoProposal
    /\ pool = <<>>
    /\ pool_selection = NoSelection
    /\ selected = IdlePaper
    /\ pdf = NoPdf
    /\ written = <<>>
    /\ calls = <<>>
    /\ queried = <<>>
    /\ caught = <<>>
    /\ files \in [example : ExampleConfigs, local : LocalConfigs]
    /\ stdout = <<>>
    /\ exit_status = -1
    /\ S2Idle
    /\ heap = <<>>

load_app_config_call ==
    /\ pc = "start"
    /\ pc' = "done"
    /\ returned' = load_app_config(files, args.config_file_env)
    /\ UNCHANGED <<keyword, papers, proposed_titles, validation_candidates, primary>>
    /\ UNCHANGED llm_vars
    /\ UNCHANGED run_vars
    /\ UNCHANGED io_vars
    /\ UNCHANGED s2_vars
    /\ UNCHANGED heap

NextConfig == load_app_config_call

SpecConfig == InitConfig /\ [][NextConfig]_vars

\* MIN_REQUEST_INTERVAL_SECONDS = 1.05, in ticks of 0.35 s
MIN_REQUEST_INTERVAL_TICKS == 3

\* the threads that call search_papers and get_paper_by_doi, and the calls each makes
MaxThreads == 2

MaxCallsPerThread == 2

\* how far the clock runs while no thread sleeps
MaxClock == 4

Threads == 1..MaxThreads

\* wait = MIN_REQUEST_INTERVAL_SECONDS - (now - _last_request_at), cut short by a tick
rate_wait_short(now, last) == MIN_REQUEST_INTERVAL_TICKS - 1 - (now - last)

\* wait = MIN_REQUEST_INTERVAL_SECONDS - (now - _last_request_at)
rate_wait(now, last) == MIN_REQUEST_INTERVAL_TICKS - (now - last)

\* search_papers and get_paper_by_doi called from several threads: every thread is before
\* a call; the clock has run for any time since the module was imported
InitLimiter ==
    /\ pc = [t \in Threads |-> "idle"]
    /\ keyword = <<>>
    /\ papers = <<>>
    /\ proposed_titles = <<>>
    /\ validation_candidates = 0
    /\ primary = IdlePaper
    /\ returned = NoResult
    /\ LlmIdle
    /\ RunIdle
    /\ IoIdle
    /\ rate_lock = 0
    /\ last_request_at = 0
    /\ monotonic \in 0..MaxClock
    /\ locals = [t \in Threads |-> [now |-> 0, wait |-> 0, until |-> 0, calls |-> 0]]
    /\ s2_requests = <<>>
    /\ heap = <<>>

limiter_frame == <<keyword, papers, proposed_titles, validation_candidates, primary, returned,
                   llm_vars, run_vars, io_vars, heap>>

\* search_papers or get_paper_by_doi reaches _s2_get, which calls _respect_rate_limit
s2_get_begin(t) ==
    /\ pc[t] = "idle"
    /\ locals[t].calls < MaxCallsPerThread
    /\ pc' = [pc EXCEPT ![t] = "lock"]
    /\ UNCHANGED <<rate_lock, last_request_at, monotonic, locals, s2_requests>>
    /\ UNCHANGED limiter_frame

\* with _rate_lock: the thread blocks until the lock is free
lock_acquire(t) ==
    /\ pc[t] = "lock"
    /\ rate_lock = 0
    /\ rate_lock' = t
    /\ pc' = [pc EXCEPT ![t] = "now"]
    /\ UNCHANGED <<last_request_at, monotonic, locals, s2_requests>>
    /\ UNCHANGED limiter_frame

\* now = time.monotonic(); wait = ...; if wait > 0
read_now(t) ==
    /\ pc[t] = "now"
    /\ locals' = [locals EXCEPT ![t].now = monotonic,
                                ![t].wait = rate_wait(monotonic, last_request_at)]
    /\ pc' = [pc EXCEPT ![t] = IF rate_wait(monotonic, last_request_at) > 0 THEN "sleep"
                                 ELSE "stamp"]
    /\ UNCHANGED <<rate_lock, last_request_at, monotonic, s2_requests>>
    /\ UNCHANGED limiter_frame

\* time.sleep(wait) is entered
sleep_begin(t) ==
    /\ pc[t] = "sleep"
    /\ locals' = [locals EXCEPT ![t].until = monotonic + locals[t].wait]
    /\ pc' = [pc EXCEPT ![t] = "sleeping"]
    /\ UNCHANGED <<rate_lock, last_request_at, monotonic, s2_requests>>
    /\ UNCHANGED limiter_frame

\* time.sleep(wait) returns, not before wait has passed
sleep_end(t) ==
    /\ pc[t] = "sleeping"
    /\ monotonic >= locals[t].until
    /\ pc' = [pc EXCEPT ![t] = "stamp"]
    /\ UNCHANGED <<rate_lock, last_request_at, monotonic, locals, s2_requests>>
    /\ UNCHANGED limiter_frame

\* _last_request_at = time.monotonic()
stamp(t) ==
    /\ pc[t] = "stamp"
    /\ last_request_at' = monotonic
    /\ pc' = [pc EXCEPT ![t] = "release"]
    /\ UNCHANGED <<rate_lock, monotonic, locals, s2_requests>>
    /\ UNCHANGED limiter_frame

\* the end of the with block
lock_release(t) ==
    /\ pc[t] = "release"
    /\ rate_lock' = 0
    /\ pc' = [pc EXCEPT ![t] = "get"]
    /\ UNCHANGED <<last_request_at, monotonic, locals, s2_requests>>
    /\ UNCHANGED limiter_frame

\* response = client.get(url, **kwargs)
client_get(t) ==
    /\ pc[t] = "get"
    /\ s2_requests' = Append(s2_requests, [thread |-> t, at |-> monotonic])
    /\ locals' = [locals EXCEPT ![t].calls = @ + 1]
    /\ pc' = [pc EXCEPT ![t] = "idle"]
    /\ UNCHANGED <<rate_lock, last_request_at, monotonic>>
    /\ UNCHANGED limiter_frame

\* time passes: freely up to MaxClock, and further while a sleeping thread waits for it
tick ==
    /\ \/ monotonic < MaxClock
       \/ \E t \in Threads : pc[t] = "sleeping" /\ monotonic < locals[t].until
    /\ monotonic' = monotonic + 1
    /\ UNCHANGED <<pc, rate_lock, last_request_at, locals, s2_requests>>
    /\ UNCHANGED limiter_frame

\* the steps of a thread inside _s2_get
s2_get_step(t) ==
    \/ lock_acquire(t)
    \/ read_now(t)
    \/ sleep_begin(t)
    \/ sleep_end(t)
    \/ stamp(t)
    \/ lock_release(t)
    \/ client_get(t)

NextLimiter ==
    \/ \E t \in Threads : s2_get_begin(t)
    \/ \E t \in Threads : lock_acquire(t)
    \/ \E t \in Threads : read_now(t)
    \/ \E t \in Threads : sleep_begin(t)
    \/ \E t \in Threads : sleep_end(t)
    \/ \E t \in Threads : stamp(t)
    \/ \E t \in Threads : lock_release(t)
    \/ \E t \in Threads : client_get(t)
    \/ tick

SpecLimiter == InitLimiter /\ [][NextLimiter]_vars

\* every thread inside _s2_get goes on running and the clock goes on
SpecLimiterFair ==
    /\ SpecLimiter
    /\ \A t \in Threads : WF_vars(s2_get_step(t))
    /\ WF_vars(tick)

\* run(...) as main() calls it, and pick_best_candidate on a list of its own
InitRun ==
    /\ pc = "start"
    /\ keyword = K_focal
    /\ papers \in {<<>>, <<R_survey>>}
    /\ proposed_titles = <<>>
    /\ validation_candidates \in {1, 3}
    /\ primary = IdlePaper
    /\ returned = NoResult
    /\ payload = JNull
    /\ client_cfg \in [disable_reasoning : BOOLEAN, loadable : BOOLEAN]
    /\ network = <<>>
    /\ requests_sent = <<>>
    /\ args \in [selector : {"llm", "rule"},
                 provider : {"all", "auto", "s2", "openalex", "arxiv"},
                 download_pdf : BOOLEAN,
                 pdf_arxiv_fallback : BOOLEAN,
                 min_title_similarity : {600}]
    /\ search_source = ""
    /\ title_proposal = NoProposal
    /\ pool = <<>>
    /\ pool_selection = NoSelection
    /\ selected = IdlePaper
    /\ pdf = NoPdf
    /\ written = <<>>
    /\ calls = <<>>
    /\ queried = <<>>
    /\ caught = <<>>
    /\ IoIdle
    /\ S2Idle
    /\ heap = <<>>

\* the step of a run that ends with the frame f
step(f) ==
    /\ pc' = f.pc
    /\ returned' = f.returned
    /\ papers' = f.papers
    /\ search_source' = f.search_source
    /\ title_proposal' = f.title_proposal
    /\ proposed_titles' = f.proposed_titles
    /\ pool' = f.pool
    /\ pool_selection' = f.pool_selection
    /\ selected' = f.selected
    /\ pdf' = f.pdf
    /\ written' = f.written
    /\ calls' = f.calls
    /\ queried' = f.queried
    /\ caught' = f.caught
    /\ network' = f.network
    /\ requests_sent' = f.requests_sent
    /\ UNCHANGED <<keyword, validation_candidates, primary, payload, client_cfg, args>>
    /\ UNCHANGED io_vars
    /\ UNCHANGED s2_vars
    /\ UNCHANGED heap

\* the record with the abstract a provider gave it
with_abstract(paper, abstract) ==
    [f \in DOMAIN paper \cup {"abstract"} |-> IF f = "abstract" THEN abstract ELSE paper[f]]

\* a text of n letters
Letters(n) == [i \in 1..n |-> "a"]

\* abstracts: none, short and padded, of exactly the limit, one over it, over it with
\* whitespace at the cut, and of the limit between padding
AbstractCatalog ==
    {<<>>,
     <<" ", "a", "b", " ">>,
     Letters(ABSTRACT_LIMIT),
     Letters(ABSTRACT_LIMIT + 1),
     Letters(ABSTRACT_LIMIT - 2) \o <<" ", " ", "b", "c">>,
     <<" ">> \o Letters(ABSTRACT_LIMIT) \o <<" ">>}

\* the pools of the projection: records of the validation pool without and with abstracts,
\* no key twice
CandidateRecords ==
    {R_focal_s2, R_resnet}
    \cup {with_abstract(R_survey, a) : a \in AbstractCatalog}

CandidatePools ==
    {list \in ListsOver(CandidateRecords, MaxPoolPapers) :
        \A a, b \in DOMAIN list : a # b => PoolKey(list[a]) # PoolKey(list[b])}

\* the ids a pool selector can answer with
SelectedIds == {candidate_id(k) : k \in 1..(MaxPoolPapers + 1)} \cup {<<"c", "1">>, <<"C", "0">>}

InitCandidates ==
    /\ pc = "start"
    /\ keyword = K_focal
    /\ papers = <<>>
    /\ proposed_titles \in {<<T_Focal>>, <<T_ResNet, T_Focal>>}
    /\ validation_candidates = MaxPoolPapers
    /\ primary = IdlePaper
    /\ returned = NoResult
    /\ LlmIdle
    /\ args \in [selector : {"llm"}, min_title_similarity : {0, 600, 1000}]
    /\ search_source = "all"
    /\ title_proposal = NoProposal
    /\ pool \in CandidatePools
    /\ pool_selection = NoSelection
    /\ selected = IdlePaper
    /\ pdf = NoPdf
    /\ written = <<>>
    /\ calls = <<>>
    /\ queried = <<>>
    /\ caught = <<>>
    /\ IoIdle
    /\ S2Idle
    /\ heap = <<>>

\* pool_candidates = _build_pool_candidates(pool)
build_pool_candidates_call ==
    /\ pc = "start"
    /\ pc' = "projected"
    /\ returned' = Return(_build_pool_candidates(pool))
    /\ UNCHANGED <<keyword, papers, proposed_titles, validation_candidates, primary>>
    /\ UNCHANGED llm_vars
    /\ UNCHANGED run_vars
    /\ UNCHANGED io_vars
    /\ UNCHANGED s2_vars
    /\ UNCHANGED heap

\* run() after select_from_pool has answered with an id: the lookup of the id among the
\* candidates and the similarity gate
lookup_selected ==
    /\ pc = "projected"
    /\ \E id \in SelectedIds :
          step(llm_matched([Frame EXCEPT !.pool_selection = PoolSelection(id, <<"r">>, JFloat(800))],
                           selected_index(returned.value, id),
                           args.min_title_similarity))

NextCandidates == build_pool_candidates_call \/ lookup_selected

SpecCandidates == InitCandidates /\ [][NextCandidates]_vars

run_rule_select ==
    /\ pc = "start"
    /\ args.selector = "rule"
    /\ \E answers \in ProviderAnswers(1) :
          step(rule_branch(Frame, keyword, args.provider, answers))

run_llm_propose ==
    /\ pc = "start"
    /\ args.selector = "llm"
    /\ \E net \in TitleExchanges : step(llm_propose(Frame, keyword, client_cfg, net))

run_llm_search ==
    /\ pc = "search_titles"
    /\ \E answers \in ProviderAnswers(Len(proposed_titles)) :
          step(llm_search(Frame, keyword, args.provider, validation_candidates, answers))

run_llm_select ==
    /\ pc = "select"
    /\ \E net \in PoolExchanges :
          step(llm_select(Frame, keyword, client_cfg, net, args.min_title_similarity))

run_enrich ==
    /\ pc = "enrich"
    /\ \E env \in EnrichAnswers : step(enrich(Frame, env))

run_download ==
    /\ pc = "pdf"
    /\ \E first \in DownloadOutcomes :
          step(download(Frame, args.download_pdf, args.pdf_arxiv_fallback, first))

run_arxiv_fallback ==
    /\ pc = "fallback"
    /\ \E arxiv \in FallbackAnswers, second \in DownloadOutcomes :
          step(arxiv_fallback(Frame, arxiv, second))

run_cite ==
    /\ pc = "cite"
    /\ step(cite(Frame, search_source))

\* the lines main() prints after run() has returned
printed(download_pdf, result) ==
    <<[level |-> "OK", about |-> "citation appended", detail |-> <<>>]>>
    \o (IF ~download_pdf THEN <<>>
        ELSE IF result.pdf_path
             THEN <<[level |-> "OK", about |-> "pdf downloaded", detail |-> <<>>]>>
        ELSE <<[level |-> "WARN", about |-> "pdf download failed",
                detail |-> result.pdf_error]>>)

\* the exit status of the interpreter: 0 when main() returns, 1 when an exception or a
\* SystemExit with a message leaves it
exit_status_of(ended) == IF ended = "finished" THEN 0 ELSE 1

\* main() after run(): it prints and returns, or the exception of run() ends the process
main ==
    /\ pc \in {"finished", "aborted"}
    /\ exit_status = -1
    /\ stdout' = IF pc = "finished" THEN printed(args.download_pdf, pdf) ELSE <<>>
    /\ exit_status' = exit_status_of(pc)
    /\ UNCHANGED <<pc, keyword, papers, proposed_titles, validation_candidates, primary,
                   returned, files>>
    /\ UNCHANGED llm_vars
    /\ UNCHANGED run_vars
    /\ UNCHANGED s2_vars
    /\ UNCHANGED heap

\* a record whose title holds no ASCII letter or digit
R_punct == Paper(<<"Z","1">>, T_punct, 2020, 10, NoIds, <<>>)

\* the validation pools of an LLM-mode run: up to two records, no two of one key
GatePools ==
    {list \in ListsOver({R_focal_s2, R_focal_openalex, R_resnet, R_punct}, 2) :
        /\ list # <<>>
        /\ \A a, b \in DOMAIN list : a # b => PoolKey(list[a]) # PoolKey(list[b])}

\* run() in LLM mode after _build_validation_pool: the proposal's titles, the pool and
\* the threshold, in thousandths
InitGate ==
    /\ pc = "start"
    /\ keyword = K_focal
    /\ papers = <<>>
    /\ proposed_titles \in {<<T_Focal>>, <<T_ResNet, T_Focal>>, <<T_punct>>}
    /\ validation_candidates = MaxPoolPapers
    /\ primary = IdlePaper
    /\ returned = NoResult
    /\ LlmIdle
    /\ args \in [selector : {"llm"}, provider : {"all"}, download_pdf : BOOLEAN,
                 pdf_arxiv_fallback : {TRUE}, min_title_similarity : {0, 600, 1000}]
    /\ search_source = "all"
    /\ title_proposal = NoProposal
    /\ pool \in GatePools
    /\ pool_selection = NoSelection
    /\ selected = IdlePaper
    /\ pdf = NoPdf
    /\ written = <<>>
    /\ calls = <<>>
    /\ queried = <<>>
    /\ caught = <<>>
    /\ IoIdle
    /\ S2Idle
    /\ heap = <<>>

NextGate ==
    \/ build_pool_candidates_call
    \/ lookup_selected
    \/ run_enrich
    \/ run_download
    \/ run_arxiv_fallback
    \/ run_cite

SpecGate == InitGate /\ [][NextGate]_vars

NextRun ==
    \/ main
    \/ pick_best_candidate_call
    \/ run_rule_select
    \/ run_llm_propose
    \/ run_llm_search
    \/ run_llm_select
    \/ run_enrich
    \/ run_download
    \/ run_arxiv_fallback
    \/ run_cite

SpecRun == InitRun /\ [][NextRun]_vars

\* once run() is at the PDF step the interpreter runs it to its return: no step there
\* waits on another thread
SpecRunFair ==
    /\ SpecRun
    /\ WF_vars(run_download)
    /\ WF_vars(run_arxiv_fallback)
    /\ WF_vars(run_cite)

(***************************************************************************)
(* C1 -- Merge/Dedupe                                                      *)
(***************************************************************************)

\* list restricted to the positions in keep, in list order
Restrict(list, keep) == KeepAt(list, [i \in DOMAIN list |-> i \in keep], 1)

\* the duplicates of the claim as written: the same provider id, or the same
\* normalized title and the same year whatever the ids are
C1_ClaimDup(p, q) ==
    \/ strip(p.paperId) # <<>> /\ strip(p.paperId) = strip(q.paperId)
    \/ normalize_text(p.title) = normalize_text(q.title) /\ p.year = q.year

\* the duplicates of the code: the same non-empty trimmed provider id, or, for two
\* records without a provider id, the same trimmed lowercased title and the same year
C1_SameKey(p, q) ==
    \/ strip(p.paperId) # <<>> /\ strip(p.paperId) = strip(q.paperId)
    \/ /\ strip(p.paperId) = <<>>
       /\ strip(q.paperId) = <<>>
       /\ lower(strip(p.title)) = lower(strip(q.title))
       /\ p.year = q.year

\* the positions of list with no earlier duplicate, under either reading
C1_FirstSeenClaim(list) ==
    {i \in DOMAIN list : ~\E j \in 1..(i - 1) : C1_ClaimDup(list[j], list[i])}

C1_FirstSeenKey(list) ==
    {i \in DOMAIN list : ~\E j \in 1..(i - 1) : C1_SameKey(list[j], list[i])}

\* C1 as written: whenever two records share the provider id, or share the normalized
\* title and the year whatever their ids are, only the first-seen one is in the output,
\* and the output keeps the input's relative order.
C1_Original ==
    pc = "done" => returned.value = Restrict(papers, C1_FirstSeenClaim(papers))

\* C1 amended: the output is the input restricted, in input order, to the first-seen
\* record of every dedupe key, where the key is the trimmed provider id when it is
\* non-empty and otherwise the trimmed lowercased title with the year; two records with
\* different non-empty ids are both kept even when title and year agree.
C1_DedupeFirstSeenByKey ==
    pc = "done" => returned.value = Restrict(papers, C1_FirstSeenKey(papers))

\* a list of three where one record repeats a key and is dropped, and two records with
\* different ids and the same normalized title and year are both kept
C1_Witness ==
    /\ pc = "done"
    /\ Len(papers) = 3
    /\ Len(returned.value) = 2
    /\ \E i, j \in DOMAIN papers : i < j /\ C1_SameKey(papers[i], papers[j])
    /\ \E i, j \in DOMAIN returned.value :
          /\ i < j
          /\ C1_ClaimDup(returned.value[i], returned.value[j])
          /\ returned.value[i].paperId # returned.value[j].paperId

(***************************************************************************)
(* C2 -- the ranking order of pick_best_candidate                          *)
(***************************************************************************)

\* q ranks strictly before r under the order of the claim as written: score
\* descending, then citationCount descending, then year descending with an unknown
\* year after every known one
C2_ClaimBefore(kw, q, r) ==
    LET sq == score_paper(kw, q)
        sr == score_paper(kw, r)
    IN  \/ sq > sr
        \/ sq = sr /\ q.citationCount > r.citationCount
        \/ /\ sq = sr
           /\ q.citationCount = r.citationCount
           /\ q.year # 0
           /\ (r.year = 0 \/ q.year > r.year)

\* q ranks strictly before r under the order of the code: score descending, then
\* citationCount descending, then year ascending with an unknown year after every
\* known one
C2_CodeBefore(kw, q, r) ==
    LET sq == score_paper(kw, q)
        sr == score_paper(kw, r)
    IN  \/ sq > sr
        \/ sq = sr /\ q.citationCount > r.citationCount
        \/ /\ sq = sr
           /\ q.citationCount = r.citationCount
           /\ q.year # 0
           /\ (r.year = 0 \/ q.year < r.year)

\* C2 as written: the returned record is first under (score desc, citationCount desc,
\* year desc): no record of the list ranks before it, the later known year winning a tie.
C2_Original ==
    (pc = "done" /\ papers # <<>>) =>
        /\ returned.kind = "return"
        /\ \A i \in DOMAIN papers : ~C2_ClaimBefore(keyword, papers[i], returned.value)

\* C2 amended: the returned record is first under score descending, then citationCount
\* descending, then year ASCENDING (of two records tied on score and citation count the
\* one with the earlier known year wins), a record with unknown year ranking after
\* every tied record with a known year; of records tied on all three the first in list
\* order is returned.
C2_EarlierYearWinsTie ==
    (pc = "done" /\ papers # <<>>) =>
        /\ returned.kind = "return"
        /\ \E b \in DOMAIN papers :
              /\ returned.value = papers[b]
              /\ \A i \in DOMAIN papers : ~C2_CodeBefore(keyword, papers[i], papers[b])
              /\ \A i \in 1..(b - 1) : C2_CodeBefore(keyword, papers[b], papers[i])

\* two records tied on score and citation count with different known years, the
\* earlier one returned though it comes second in the list
C2_Witness ==
    /\ pc = "done"
    /\ Len(papers) = 2
    /\ score_paper(keyword, papers[1]) = score_paper(keyword, papers[2])
    /\ papers[1].citationCount = papers[2].citationCount
    /\ papers[1].year # 0
    /\ papers[2].year # 0
    /\ papers[2].year < papers[1].year
    /\ returned.value = papers[2]

(***************************************************************************)
(* C4 -- the scorer's ordering example                                     *)
(***************************************************************************)

C4_IsOriginal(p) == \E v \in {<<>>, V_arXiv} : p = DETR_Original(v)

C4_IsVariant(p) == \E v \in {<<>>, V_arXiv} : p = DETR_Variant(v)

\* C4: with keyword "DETR" the record "DETR: End-to-End Object Detection with
\* Transformers" (non-arXiv DOI, 9000 citations, 2020) scores strictly higher than
\* "DN-DETR: Accelerate DETR Training" (no DOI, 300 citations, 2022), and
\* pick_best_candidate returns the former from a list of the two in either order.
C4_OriginalOutscoresVariant ==
    (pc = "done" /\ Len(papers) = 2) =>
        \A i, j \in DOMAIN papers :
            (C4_IsOriginal(papers[i]) /\ C4_IsVariant(papers[j])) =>
                /\ score_paper(keyword, papers[i]) > score_paper(keyword, papers[j])
                /\ returned = [kind |-> "return", value |-> papers[i]]

\* the list holding the variant first and the original second has been ranked
C4_Witness ==
    /\ pc = "done"
    /\ keyword = K_DETR
    /\ papers = <<DETR_Variant(<<>>), DETR_Original(<<>>)>>
    /\ returned.value = DETR_Original(<<>>)

(***************************************************************************)
(* C5 -- exact-title hits in the validation pool                           *)
(***************************************************************************)

\* the record is an exact-title hit of the t-th proposed title
C5_IsHitOf(paper, t) ==
    /\ normalize_text(proposed_titles[t]) # <<>>
    /\ normalize_text(paper.title) = normalize_text(proposed_titles[t])

C5_IsHit(paper) == \E t \in DOMAIN proposed_titles : C5_IsHitOf(paper, t)

\* the first proposed title the record is a hit of
C5_TitleIndex(paper) ==
    CHOOSE t \in DOMAIN proposed_titles :
        C5_IsHitOf(paper, t) /\ \A u \in 1..(t - 1) : ~C5_IsHitOf(paper, u)

\* the position of a record in the candidate list
C5_Position(paper) == CHOOSE i \in DOMAIN papers : papers[i] = paper

\* hit x is added before hit y: proposal order, then descending citation count, then
\* candidate-list order
C5_HitBefore(x, y) ==
    \/ C5_TitleIndex(x) < C5_TitleIndex(y)
    \/ /\ C5_TitleIndex(x) = C5_TitleIndex(y)
       /\ \/ x.citationCount > y.citationCount
          \/ x.citationCount = y.citationCount /\ C5_Position(x) < C5_Position(y)

\* two records have the same pool dedupe key
C5_SamePoolKey(p, q) ==
    \/ strip(p.paperId) # <<>> /\ strip(p.paperId) = strip(q.paperId)
    \/ /\ strip(p.paperId) = <<>>
       /\ strip(q.paperId) = <<>>
       /\ normalize_text(p.title) = normalize_text(q.title)
       /\ p.year = q.year

\* the hits of the pool come first, in the order they are added
C5_HitsLeadInOrder(kept) ==
    /\ \A a, b \in DOMAIN kept : (a < b /\ C5_IsHit(kept[b])) => C5_IsHit(kept[a])
    /\ \A a, b \in DOMAIN kept :
          (a < b /\ C5_IsHit(kept[a]) /\ C5_IsHit(kept[b])) => C5_HitBefore(kept[a], kept[b])

\* C5 as written, for a target size N >= 1: every candidate whose normalized title equals a normalized proposed
\* title is in the pool, the hits are in proposal order and descending citation count
\* (equal counts in list order), and they precede every score-ranked filler.
C5_Original ==
    (pc = "done" /\ validation_candidates >= 1) =>
        /\ \A i \in DOMAIN papers : C5_IsHit(papers[i]) => papers[i] \in Range(returned.value)
        /\ C5_HitsLeadInOrder(returned.value)

\* C5 amended: the exact-title hits are added in proposal order and descending citation
\* count (equal counts in list order), skipping a hit whose dedupe key was already
\* added, all hits of the pool precede every filler, and the pool is cut to max(1, N)
\* entries: a hit is absent from the pool only if it repeats the key of a hit added
\* before it, or the pool is full of hits added before it.
C5_ExactHitsFirstUpToSize ==
    pc = "done" =>
        LET kept == returned.value
            size == IF validation_candidates > 1 THEN validation_candidates ELSE 1
        IN  /\ C5_HitsLeadInOrder(kept)
            /\ \A i \in DOMAIN papers :
                  (C5_IsHit(papers[i]) /\ papers[i] \notin Range(kept)) =>
                      \/ \E j \in DOMAIN papers :
                            /\ C5_IsHit(papers[j])
                            /\ C5_SamePoolKey(papers[j], papers[i])
                            /\ C5_HitBefore(papers[j], papers[i])
                      \/ /\ Len(kept) = size
                         /\ \A k \in DOMAIN kept :
                               C5_IsHit(kept[k]) /\ C5_HitBefore(kept[k], papers[i])

\* two exact-title hits with citation counts 50 and 200 are the first two entries of a
\* pool of three, 200 before 50, ahead of a filler that outscores both
C5_Witness ==
    /\ pc = "done"
    /\ Len(returned.value) = 3
    /\ Len(papers) = 3
    /\ papers[1].citationCount = 50
    /\ returned.value[1].citationCount = 200
    /\ returned.value[2].citationCount = 50
    /\ C5_IsHit(returned.value[1])
    /\ C5_IsHit(returned.value[2])
    /\ ~C5_IsHit(returned.value[3])
    /\ score_paper(keyword, returned.value[3]) > score_paper(keyword, returned.value[1])

(***************************************************************************)
(* C10 -- the acceptance boundary of the backup match                      *)
(***************************************************************************)

\* the score as the claim states it
C10_Score(prim, c) ==
    LET doi == get_doi(prim) # <<>> /\ lower(get_doi(prim)) = lower(get_doi(c))
        pt == normalize_text(prim.title)
        ct == normalize_text(c.title)
        both == pt # <<>> /\ ct # <<>>
        years == prim.year # 0 /\ c.year # 0
    IN  (IF doi THEN 100 ELSE 0)
        + (IF both /\ pt = ct THEN 50
           ELSE IF both /\ (Contains(pt, ct) \/ Contains(ct, pt)) THEN 20 ELSE 0)
        + (IF years /\ prim.year = c.year THEN 8
           ELSE IF years /\ (prim.year - c.year) \in {-1, 1} THEN 3 ELSE 0)

\* C10: no backup is returned for an empty candidate list or when the best score is
\* below 20 (a year match only scores 8); when some candidate scores 20 or more a
\* candidate of the highest score is returned, one that no candidate outranks on
\* (score, citation count).
C10_BackupAcceptedFromTwenty ==
    pc = "done" =>
        LET best == {i \in DOMAIN papers :
                        \A j \in DOMAIN papers :
                            C10_Score(primary, papers[j]) <= C10_Score(primary, papers[i])}
        IN  /\ papers = <<>> => returned.none
            /\ \A i \in best : C10_Score(primary, papers[i]) < 20 => returned.none
            /\ \A i \in best : C10_Score(primary, papers[i]) >= 20 =>
                  /\ ~returned.none
                  /\ \E b \in best :
                        /\ returned.value = papers[b]
                        /\ \A j \in best : papers[j].citationCount <= papers[b].citationCount

\* a candidate matching on the year only (8) is passed over and a candidate scoring
\* exactly 20 (title containment only) is returned
C10_Witness ==
    /\ pc = "done"
    /\ Len(papers) = 2
    /\ C10_Score(primary, papers[1]) = 8
    /\ C10_Score(primary, papers[2]) = 20
    /\ ~returned.none
    /\ returned.value = papers[2]

\* a list whose best candidate matches on the year only yields no backup
C10_RejectWitness ==
    /\ pc = "done"
    /\ papers # <<>>
    /\ \A i \in DOMAIN papers : C10_Score(primary, papers[i]) = 8
    /\ returned.none

(***************************************************************************)
(* C7 -- validation of the title proposer's payload                        *)
(***************************************************************************)

\* trimmed and whitespace-collapsed: no whitespace at either end, single spaces inside
C7_Clean(text) ==
    /\ text # <<>>
    /\ ~IsSpace(text[1]) /\ ~IsSpace(text[Len(text)])
    /\ \A i \in DOMAIN text : IsSpace(text[i]) => (text[i] = " " /\ ~IsSpace(text[i + 1]))

\* the titles of a payload whose `titles` is an array of strings, cleaned, in order
C7_CleanedItems(value) ==
    [i \in DOMAIN value.items |-> collapse_whitespace(strip(value.items[i].s))]

\* titles is the list of the first occurrences (ignoring case) of the non-empty cleaned
\* items, cut to three
C7_FirstOccurrences(titles, cleaned) ==
    LET firsts == {i \in DOMAIN cleaned :
                      /\ cleaned[i] # <<>>
                      /\ \A j \in 1..(i - 1) : lower(cleaned[j]) # lower(cleaned[i])}
    IN  /\ Len(titles) = (IF Cardinality(firsts) < 3 THEN Cardinality(firsts) ELSE 3)
        /\ \A k \in DOMAIN titles :
              \E i \in firsts : /\ Cardinality({j \in firsts : j < i}) = k - 1
                                /\ titles[k] = cleaned[i]

C7_ArrayOfStrings(value) ==
    /\ value.t = "list"
    /\ value.items # <<>>
    /\ \A i \in DOMAIN value.items : value.items[i].t = "str"

\* a confidence that is a number, or a string spelling one, within [0, 1]
C7_InUnitInterval(value) ==
    LET x == py_float(value)
    IN  /\ value.t \in {"int", "float", "str", "bool"}
        /\ x.ok /\ x.value.t = "float" /\ x.value.milli >= 0 /\ x.value.milli <= 1000

C7_EmptyReason(value) == value.t = "null" \/ (value.t = "str" /\ strip(value.s) = <<>>)

\* C7 as written: a proposal built from a parsed payload has one to three titles,
\* trimmed, whitespace-collapsed, pairwise distinct ignoring case and in
\* first-occurrence order, a non-empty reason and a confidence within [0, 1]; and a
\* payload whose titles is not a non-empty array of strings, whose reason is empty, or
\* whose confidence is missing, unparseable or outside [0, 1] is rejected with
\* LLMTitleError.
C7_Original ==
    pc = "done" =>
        LET titles == dict_get(payload, KEY_titles)
            reason == dict_get(payload, KEY_reason)
            confidence == dict_get(payload, KEY_confidence)
        IN  /\ returned.kind = "return" =>
                  /\ Len(returned.value.titles) \in 1..3
                  /\ \A i \in DOMAIN returned.value.titles : C7_Clean(returned.value.titles[i])
                  /\ \A i, j \in DOMAIN returned.value.titles :
                        i # j => lower(returned.value.titles[i]) # lower(returned.value.titles[j])
                  /\ C7_ArrayOfStrings(titles) =>
                        C7_FirstOccurrences(returned.value.titles, C7_CleanedItems(titles))
                  /\ returned.value.reason # <<>>
                  /\ returned.value.confidence.t = "float"
                  /\ returned.value.confidence.milli >= 0
                  /\ returned.value.confidence.milli <= 1000
            /\ (~C7_ArrayOfStrings(titles) \/ C7_EmptyReason(reason)
                    \/ ~C7_InUnitInterval(confidence)) =>
                  (returned.kind = "raise" /\ returned.error = "LLMTitleError")

\* the failing input: titles ["Attention Is All You Need"], a reason, confidence NaN;
\* the payload is accepted and the proposal's confidence is NaN
C7_NaNAccepted ==
    /\ pc = "done"
    /\ dict_get(payload, KEY_titles) = JList(<<JStr(T_Attention_padded)>>)
    /\ dict_get(payload, KEY_confidence) = JNaN
    /\ returned.kind = "return"
    /\ returned.value.titles = <<T_Attention>>
    /\ returned.value.confidence = JNaN

(***************************************************************************)
(* C6 -- the transport protocol of the two LLM calls                       *)
(***************************************************************************)

\* the k-th post met an HTTP status of 400 or more
C6_ErrorStatus(k) == network[k].kind = "response" /\ network[k].status >= 400

\* the k-th post met a timeout or a connection failure
C6_NoResponse(k) == network[k].kind \in {"timeout", "connection"}

\* the call ended with the error of its module
C6_Failed ==
    /\ returned.kind = "raise"
    /\ returned.error =
          (IF requests_sent[1].messages = "titles" THEN "LLMTitleError" ELSE "LLMPoolError")

\* C6: a call of propose_titles or select_from_pool posts at most two requests; it
\* posts a second one exactly when the configuration set the disable-reasoning hint
\* and the first response had a status of 400 or more; the first request carries the
\* thinking field exactly when the hint is set and the second never does; a timeout or
\* connection failure on a request ends the call with the module's error and no
\* further request; and a status of 400 or more on the last request posted ends the
\* call with that error.
C6_RetryOnceWithoutThinking ==
    pc = "done" =>
        LET n == Len(requests_sent)
        IN  /\ n <= 2
            /\ n >= 1 =>
                  /\ (n = 2) <=> (client_cfg.disable_reasoning /\ C6_ErrorStatus(1))
                  /\ requests_sent[1].thinking = client_cfg.disable_reasoning
                  /\ n = 2 => ~requests_sent[2].thinking
                  /\ n = 2 => requests_sent[2].messages = requests_sent[1].messages
                  /\ \A k \in 1..n : C6_NoResponse(k) => (k = n /\ C6_Failed)
                  /\ C6_ErrorStatus(n) => C6_Failed

\* the hint is set, the first response is an HTTP error, the retry without the thinking
\* field is answered and the call returns
C6_Witness ==
    /\ pc = "done"
    /\ client_cfg.disable_reasoning
    /\ Len(requests_sent) = 2
    /\ requests_sent[1].thinking /\ ~requests_sent[2].thinking
    /\ C6_ErrorStatus(1)
    /\ network[2].kind = "response" /\ network[2].status = 200
    /\ returned.kind = "return"

(***************************************************************************)
(* C8 -- the salvage of titles from the reasoning text                     *)
(***************************************************************************)

\* the decoded body of the response
C8_Body == network[1].body

\* the body is an object with a message
C8_HasMessage == C8_Body.t = "dict" /\ first_message(C8_Body).ok

C8_Primary == dict_get(first_message(C8_Body).message, KEY_content)

C8_Reasoning == dict_get(first_message(C8_Body).message, KEY_reasoning_content)

\* what extraction and validation make of a text
C8_Validated(text) ==
    LET parsed == _extract_json(text)
    IN  IF parsed.kind = "return" THEN _validate_payload(parsed.value) ELSE parsed

\* the title-like spans of the reasoning text, three at most
C8_Spans ==
    IF C8_Reasoning.t = "str"
    THEN _extract_titles_from_text_fallback(strip(C8_Reasoning.s))
    ELSE <<>>

C8_Salvaged == Return(TitleProposal(C8_Spans, R_truncation, JFloat(350)))

C8_RaisedTitleError == returned.kind = "raise" /\ returned.error = "LLMTitleError"

\* C8 as written: when the primary content is empty or fails extraction or
\* validation, the call returns the salvaged proposal (the spans of the reasoning
\* text, confidence 0.35, the truncation-recovery reason) if the reasoning text has a
\* title-like span, and raises LLMTitleError otherwise.
C8_Original ==
    (pc = "done" /\ C8_HasMessage
        /\ (~NonBlankStr(C8_Primary) \/ C8_Validated(strip(C8_Primary.s)).kind = "raise")) =>
        (IF C8_Spans # <<>> THEN returned = C8_Salvaged ELSE C8_RaisedTitleError)

\* the text the call extracts the payload from: the primary content, or the reasoning
\* text when the primary content is blank or not a string
C8_Effective ==
    IF NonBlankStr(C8_Primary) THEN strip(C8_Primary.s)
    ELSE IF NonBlankStr(C8_Reasoning) THEN strip(C8_Reasoning.s)
    ELSE <<>>

\* C8, corrected: the payload is extracted from the primary content, or from the
\* reasoning text when the primary content is empty; if that text yields a valid
\* payload its proposal is returned as it is; if there is no such text or its
\* extraction or validation fails with LLMTitleError, the call returns the salvaged
\* proposal when the reasoning text has a title-like span and raises LLMTitleError
\* when it has none; a body without a message raises LLMTitleError.
C8_SalvageAfterEffectiveContentFails ==
    (pc = "done" /\ C8_Body.t = "dict") =>
        IF ~C8_HasMessage THEN C8_RaisedTitleError
        ELSE LET first == IF C8_Effective = <<>>
                          THEN Raise("LLMTitleError", "LLM response content is empty.")
                          ELSE C8_Validated(C8_Effective)
             IN  /\ Len(C8_Spans) <= 3
                 /\ first.kind = "return" => returned = first
                 /\ (first.kind = "raise" /\ first.error = "LLMTitleError") =>
                       (IF C8_Spans # <<>> THEN returned = C8_Salvaged
                        ELSE C8_RaisedTitleError)

\* empty primary content and a reasoning text quoting "Attention Is All You Need": the
\* proposal holds that title at confidence 0.35
C8_Witness ==
    /\ pc = "done"
    /\ C8_HasMessage
    /\ C8_Primary = JStr(<<>>)
    /\ C8_Reasoning = JStr(LT_quoted)
    /\ returned = Return(TitleProposal(<<T_Attention>>, R_truncation, JFloat(350)))

\* empty primary content and a reasoning text that is a valid payload quoting the same
\* title: the proposal is the payload's, at its confidence 0.9
C8_ReasoningTakenAsContent ==
    /\ pc = "done"
    /\ C8_HasMessage
    /\ C8_Primary = JStr(<<>>)
    /\ C8_Reasoning = JStr(LT_valid)
    /\ C8_Spans = <<T_Attention>>
    /\ returned = Return(TitleProposal(<<T_Attention>>, <<"s","e","m","i","n","a","l">>,
                                       JFloat(900)))

(***************************************************************************)
(* C3 -- the Rule Selector on degenerate lists, and the empty rule-mode search *)
(***************************************************************************)

\* a rule-mode run whose provider search has returned no records
C3_RuleSearchReturnedNothing ==
    /\ args # NoArgs
    /\ args.selector = "rule"
    /\ search_source # ""
    /\ papers = <<>>

\* C3: pick_best_candidate called on an empty list raises the empty-candidate error
\* (ValueError) and returns no record; called on a one-element list it returns that
\* element, whatever its score; a rule-mode run whose provider search returned no
\* records has aborted with SystemExit, with no record selected, pick_best_candidate not
\* called and no citation or PDF written.
C3_EmptyRaisesSingleReturnedEmptySearchAborts ==
    /\ (pc = "done" /\ papers = <<>>) =>
          (returned.kind = "raise" /\ returned.error = "ValueError")
    /\ (pc = "done" /\ Len(papers) = 1) => returned = Return(papers[1])
    /\ C3_RuleSearchReturnedNothing =>
          /\ pc = "aborted"
          /\ returned.kind = "raise"
          /\ returned.error = "SystemExit"
          /\ selected = IdlePaper
          /\ calls = <<"_search_candidates">>
          /\ written = <<>>

\* a rule-mode run that aborted on an empty search result
C3_Witness ==
    /\ C3_RuleSearchReturnedNothing
    /\ pc = "aborted"
    /\ returned.kind = "raise"
    /\ returned.error = "SystemExit"

\* pick_best_candidate returned the only element of its list, a survey
C3_SingleWitness ==
    /\ pc = "done"
    /\ papers = <<R_survey>>
    /\ returned = Return(R_survey)

\* pick_best_candidate raised on the empty list
C3_EmptyWitness ==
    /\ pc = "done"
    /\ papers = <<>>
    /\ returned.kind = "raise"

(***************************************************************************)
(* C9 -- an invalid selection or a failed LLM call leaves no citation      *)
(***************************************************************************)

\* the number of calls of a function in the run so far
C9_Calls(name) == Cardinality({i \in DOMAIN calls : calls[i] = name})

\* the run is in LLM mode
C9_LlmMode == args # NoArgs /\ args.selector = "llm"

\* the LLM-mode run has reached enrichment, the PDF download or the citation
C9_PastSelection ==
    /\ C9_LlmMode
    /\ \/ pc \in {"enrich", "pdf", "fallback", "cite", "finished"}
       \/ Range(calls) \cap {"_enrich_selected_metadata", "download_pdf_for_paper",
                            "append_daily_citation"} # {}

\* the proposal was accepted, the title search returned a record, and the selected id
\* is the id of a pool entry
C9_ValidSelection ==
    /\ title_proposal # NoProposal
    /\ papers # <<>>
    /\ pool_selection # NoSelection
    /\ \E i \in DOMAIN pool : candidate_id(i) = pool_selection.candidate_id

\* the LLM-mode run ended at one of its LLM calls: the call failed, or the selected id
\* matched no pool entry, or the selected title failed the similarity gate
C9_EndedAtLlmCall ==
    /\ C9_LlmMode
    /\ pc = "aborted"
    /\ calls # <<>>
    /\ calls[Len(calls)] \in {"propose_titles", "select_from_pool"}

\* enrichment, PDF download and citation come only after a valid selection, and nothing
\* is written and no LLM call is repeated when the run ends at an LLM call
C9_CitationOnlyAfterValidSelection ==
    /\ C9_PastSelection => C9_ValidSelection
    /\ C9_EndedAtLlmCall => written = <<>>
    /\ C9_Calls("propose_titles") <= 1
    /\ C9_Calls("select_from_pool") <= 1

\* C9 as written: in LLM mode the citation, the enrichment and the PDF download are
\* reached only after an accepted proposal, a non-empty title search and a selected id
\* that is the id of a pool entry; and a run that ends at an LLM call, because the
\* call failed or the id matched no pool entry, ends with SystemExit, without a second
\* call and with nothing written.
C9_Original ==
    /\ C9_CitationOnlyAfterValidSelection
    /\ C9_EndedAtLlmCall => (returned.kind = "raise" /\ returned.error = "SystemExit")

\* the endpoint answered the title request with a JSON body that is no object, and the
\* run ended with AttributeError
C9_AttributeErrorEscapes ==
    /\ C9_EndedAtLlmCall
    /\ returned.kind = "raise"
    /\ returned.error = "AttributeError"
    /\ written = <<>>

\* a run that appended its citation after a valid selection
C9_CitedWitness ==
    /\ C9_LlmMode
    /\ pc = "finished"
    /\ C9_ValidSelection
    /\ Len(written) >= 1

\* a run that ended with SystemExit because the selected id matched no pool entry
C9_UnknownIdWitness ==
    /\ C9_EndedAtLlmCall
    /\ pool_selection # NoSelection
    /\ \A i \in DOMAIN pool : candidate_id(i) # pool_selection.candidate_id
    /\ returned.error = "SystemExit"

(***************************************************************************)
(* C11 -- the precedence of the backup merge                               *)
(***************************************************************************)

\* the value is empty as the claim reads it: None, "" or no year
C11_Empty(field, value) == IF field = "year" THEN value = 0 ELSE value = <<>>

\* the value is empty as the code reads it: falsy, or whitespace only
C11_Blank(field, value) == IF field = "year" THEN value = 0 ELSE strip(value) = <<>>

\* for every external-id key of both maps the merged map has the primary's value, and the
\* merged keys are the union of both
C11_IdsUnion(prim, backup, merged) ==
    /\ DOMAIN merged.externalIds = DOMAIN prim.externalIds \cup DOMAIN backup.externalIds
    /\ \A k \in DOMAIN prim.externalIds : merged.externalIds[k] = prim.externalIds[k]
    /\ \A k \in DOMAIN backup.externalIds \ DOMAIN prim.externalIds :
          merged.externalIds[k] = backup.externalIds[k]

\* C11 as written: a scalar field whose primary value is not empty keeps the primary's
\* value, and the external ids are the union with the primary winning.
C11_Original ==
    (pc = "done" /\ papers # <<>>) =>
        /\ \A f \in ScalarFields :
              ~C11_Empty(f, primary[f]) => returned.value[f] = primary[f]
        /\ C11_IdsUnion(primary, papers[1], returned.value)

\* C11: after _merge_with_backup with a backup, every scalar field whose primary value
\* has a non-whitespace character (a year other than 0) keeps the primary's value; a field
\* whose primary value is empty or whitespace only takes the backup's value when that is
\* not empty, and otherwise stays, except that an empty pdfUrl becomes the first merged
\* PDF URL; the external ids are the union of both maps with the primary's value on
\* every shared key.
C11_PrimaryWinsUnlessBlank ==
    (pc = "done" /\ papers # <<>>) =>
        /\ \A f \in ScalarFields :
              /\ ~C11_Blank(f, primary[f]) => returned.value[f] = primary[f]
              /\ (C11_Blank(f, primary[f]) /\ ~C11_Empty(f, papers[1][f])) =>
                    returned.value[f] = papers[1][f]
              /\ returned.value[f] # primary[f] =>
                    \/ returned.value[f] = papers[1][f]
                    \/ f = "pdfUrl" /\ primary[f] = <<>>
                       /\ returned.value[f] = returned.value.pdfUrls[1]
        /\ C11_IdsUnion(primary, papers[1], returned.value)

\* a merge that kept a set primary title over the backup's, took the backup's pages and
\* year for empty ones, and kept the primary's DOI on the shared key
C11_Witness ==
    /\ pc = "done"
    /\ papers # <<>>
    /\ primary.title = <<"p">>
    /\ papers[1].title = <<"b">>
    /\ returned.value.title = <<"p">>
    /\ primary.pages = <<>>
    /\ returned.value.pages = <<"b">>
    /\ primary.year = 0
    /\ returned.value.year = 2018
    /\ returned.value.externalIds = [k \in {"DOI", "ArXiv", "MAG"} |->
                                        CASE k = "DOI" -> Doi_x
                                          [] k = "ArXiv" -> <<"1">>
                                          [] OTHER -> <<"2">>]

\* a whitespace-only primary venue replaced by the backup's
C11_BlankReplaced ==
    /\ pc = "done"
    /\ papers # <<>>
    /\ primary.venue = <<" ">>
    /\ returned.value.venue = <<"b">>

(***************************************************************************)
(* C12 -- enrichment is best-effort                                        *)
(***************************************************************************)

\* the except clause of _enrich_selected_metadata has caught an exception in this run
C12_Caught(log) == \E i \in DOMAIN log : log[i].by = "_enrich_selected_metadata"

\* C12: when the backup provider's DOI lookup or title search raises during
\* _enrich_selected_metadata, the exception is caught, the selected record is returned as
\* it was handed in, and the run goes on to the download step and never ends with an
\* exception before the citation is written.
C12_EnrichmentFailureSwallowed ==
    /\ [][(pc = "enrich" /\ C12_Caught(caught')) => (selected' = selected /\ pc' = "pdf")]_vars
    /\ [](C12_Caught(caught) => pc \in {"pdf", "fallback", "cite", "finished"})
    /\ []((C12_Caught(caught) /\ pc = "finished") =>
             \E i \in DOMAIN written : /\ written[i].file = "citation"
                                       /\ written[i].paper.paperId = selected.paperId)

\* a run whose enrichment met a failing backup provider and that wrote its citation
C12_Witness ==
    /\ pc = "finished"
    /\ C12_Caught(caught)
    /\ search_source \in {"openalex", "s2"}
    /\ written # <<>>
    /\ written[Len(written)].file = "citation"

(***************************************************************************)
(* C13 -- enrichment of a winner found by several providers                *)
(***************************************************************************)

\* the run has a winner and is past the enrichment step
C13_PastEnrichment == pc \in {"pdf", "fallback", "cite", "finished"}

\* C13 as written: once a winner is fixed in a run that queried every provider (provider
\* mode "all"), the enrichment has queried the other primary provider, by DOI first when
\* the winner has one and else by title.
C13_Original ==
    (C13_PastEnrichment /\ search_source = "all" /\ strip(selected.title) # <<>>) =>
        /\ queried # <<>>
        /\ queried[1].provider \in {"s2", "openalex"}

\* what the code does: a run with search source "all" or "arxiv" is past the enrichment
\* without a query to a backup provider, and its winner's volume and pages are still empty
C13_NotEnriched ==
    /\ pc = "finished"
    /\ search_source = "all"
    /\ args.provider = "all"
    /\ get_doi(selected) # <<>>
    /\ selected.volume = <<>>
    /\ selected.pages = <<>>
    /\ queried = <<>>

\* with one primary provider as the search source the other one is queried and fills
\* the winner's empty volume and pages
C13_SingleSourceEnriched ==
    /\ pc = "finished"
    /\ search_source = "openalex"
    /\ queried # <<>>
    /\ queried[1].provider = "s2"
    /\ selected.paperId = <<"H","2">>
    /\ selected.volume = <<"4","2">>

\* only a run whose search source is one primary provider queries a backup provider
C13_EnrichedOnlyFromSingleSource ==
    C13_PastEnrichment => (queried # <<>> => search_source \in {"openalex", "s2"})

(***************************************************************************)
(* C14 -- the rate-limit fallback of the candidate search                  *)
(***************************************************************************)

\* the number of provider queries the call under check makes per provider
C14_Queries == IF calls = <<"_search_candidates">> THEN 1 ELSE Len(proposed_titles)

\* some Semantic Scholar query of the call answers 429
C14_RateLimited == \E t \in 1..C14_Queries : network.s2[t].kind = "rate_limited"

\* the records one provider answers to the queries t..n, in query order
RECURSIVE C14_Answered(_, _, _)
C14_Answered(answer, t, n) ==
    IF t > n THEN <<>> ELSE answer[t].papers \o C14_Answered(answer, t + 1, n)

\* the records of any Semantic Scholar answer of the call
C14_S2Records ==
    UNION {Range(network.s2[t].papers) :
              t \in {u \in 1..C14_Queries : network.s2[u].kind # "rate_limited"}}

\* position of a record in the returned list
C14_Pos(record) == CHOOSE i \in DOMAIN returned.papers : returned.papers[i] = record

\* C14: a Semantic Scholar rate-limit error during a candidate search is not raised to the
\* caller in the modes "auto" and "all". In mode "auto" the keyword search returns the
\* OpenAlex answer and the title-pool search returns the merged OpenAlex answers to every
\* proposed title with no record of a Semantic Scholar answer, both with source
\* "openalex"; in mode "all" the source is "all" and every record OpenAlex and arXiv
\* answered is returned, the OpenAlex records of a query before its arXiv records.
C14_RateLimitFallsBack ==
    (pc = "done" /\ C14_Queries > 0 /\ C14_RateLimited /\ args.provider \in {"auto", "all"}) =>
        /\ returned.kind = "return"
        /\ args.provider = "auto" =>
              /\ returned.source = "openalex"
              /\ calls = <<"_search_candidates">> =>
                    returned.papers = network.openalex[1].papers
              /\ returned.papers =
                    _merge_and_dedupe_papers(C14_Answered(network.openalex, 1, C14_Queries))
              /\ \A t \in 1..C14_Queries :
                    Range(network.openalex[t].papers) \subseteq Range(returned.papers)
              /\ Range(returned.papers) \cap C14_S2Records = {}
        /\ args.provider = "all" =>
              /\ returned.source = "all"
              /\ \A t \in 1..C14_Queries :
                    /\ Range(network.openalex[t].papers) \subseteq Range(returned.papers)
                    /\ Range(network.arxiv[t].papers) \subseteq Range(returned.papers)
                    /\ network.s2[t].kind # "rate_limited" =>
                          Range(network.s2[t].papers) \subseteq Range(returned.papers)
                    /\ \A a \in Range(network.openalex[t].papers),
                          b \in Range(network.arxiv[t].papers) :
                          (\A u \in 1..(t - 1) : b \notin Range(network.arxiv[u].papers)) =>
                              C14_Pos(a) < C14_Pos(b)

\* a title-pool search in mode "auto" whose second Semantic Scholar query is rate limited
\* after the first one answered, and which returns the OpenAlex record of the second title
C14_Witness ==
    /\ pc = "done"
    /\ calls = <<"_search_titles_pool">>
    /\ args.provider = "auto"
    /\ Len(proposed_titles) = 2
    /\ network.s2[1] = Found(<<R_focal_s2>>)
    /\ network.s2[2] = RateLimited
    /\ network.openalex[1] = Found(<<>>)
    /\ returned = Searched(<<R_focal_openalex>>, "openalex")

\* a search in mode "all" that skipped the rate-limited Semantic Scholar part
C14_AllWitness ==
    /\ pc = "done"
    /\ args.provider = "all"
    /\ calls = <<"_search_candidates">>
    /\ network.s2[1] = RateLimited
    /\ returned = Searched(<<R_focal_openalex, R_survey>>, "all")

\* with Semantic Scholar as the only provider the error reaches the caller
C14_OnlyProviderRaises ==
    /\ pc = "done"
    /\ args.provider = "s2"
    /\ returned = RateLimitError

(***************************************************************************)
(* C15 -- the Semantic Scholar rate limiter under concurrent callers       *)
(***************************************************************************)

\* the positions of a thread inside the with block of _respect_rate_limit
C15_Guarded == {"now", "sleep", "sleeping", "stamp", "release"}

\* the calls of _respect_rate_limit a thread has completed or is completing
C15_Admitted(t) == locals[t].calls + (IF pc[t] = "get" THEN 1 ELSE 0)

\* the client.get calls a thread has made
C15_Requests(t) == Cardinality({i \in DOMAIN s2_requests : s2_requests[i].thread = t})

C15_RequestsTogether ==
    /\ Len(s2_requests) >= 2
    /\ s2_requests[1].thread # s2_requests[2].thread
    /\ s2_requests[1].at = s2_requests[2].at

(***************************************************************************)
(* C16 -- the numbering of the daily citation file                         *)
(***************************************************************************)

\* "[k] " followed by the text without its surrounding whitespace
C16_Numbered(k, text) == <<"[">> \o int_str(k) \o <<"]", " ">> \o strip(text)

\* the texts handed in so far are all non-blank and carry no index prefix
C16_PlainTexts ==
    \A i \in DOMAIN written :
        strip(written[i].text) # <<>> /\ ~has_reference_index(strip(written[i].text))

\* none of the texts handed in so far has a line break inside
C16_SingleLineTexts == \A i \in DOMAIN written : "\n" \notin Range(strip(written[i].text))

\* the file consists of terminated lines: one per text, line k being "[k] " and the k-th text
C16_OneLinePerText ==
    /\ files.daily.exists
    /\ files.daily.content[Len(files.daily.content)] = "\n"
    /\ file_lines(files.daily.content)
          = [k \in DOMAIN written |-> C16_Numbered(k, written[k].text)]

\* the largest index a line of the file starts with, 0 when there is none
C16_MaxIndex(file) ==
    LET lines == file_lines(file.content)
        marked == {j \in DOMAIN lines : has_reference_index(strip(lines[j]))}
    IN  IF marked = {} THEN 0
        ELSE CHOOSE n \in {reference_index(strip(lines[j])) : j \in marked} :
                 \A j \in marked : reference_index(strip(lines[j])) <= n

\* the text handed to the append that has just happened
C16_Last == written'[Len(written')].text

\* C16 as written: from a missing or empty daily file, after n appends of non-blank texts
\* without index prefix the file holds exactly n lines and line k is "[k] " followed by the
\* k-th text.
C16_Original == (pc = "appended" /\ C16_PlainTexts) => C16_OneLinePerText

\* C16: from a missing or empty daily file, after n appends of non-blank texts that carry
\* no index prefix and have no line break inside, the file holds exactly n lines and line k
\* is "[k] " followed by the k-th text without its surrounding whitespace; every append of
\* a non-blank text without index prefix adds "[i] " and the text, i being 1 + the largest
\* index a line of the file starts with, after the old content; and an append of blank text
\* leaves the file as it is.
C16_SingleLineTextsNumbered ==
    /\ []((pc = "appended" /\ C16_PlainTexts /\ C16_SingleLineTexts) => C16_OneLinePerText)
    /\ [][(written' # written /\ strip(C16_Last) = <<>>) => files' = files]_vars
    /\ [][(written' # written /\ strip(C16_Last) # <<>>
           /\ ~has_reference_index(strip(C16_Last))) =>
             files'.daily.content
                = files.daily.content
                  \o C16_Numbered(C16_MaxIndex(files.daily) + 1, C16_Last) \o <<"\n">>]_vars

\* three plain one-line texts appended to a file that was missing, one of them padded
C16_Witness ==
    /\ Len(written) = 3
    /\ C16_PlainTexts
    /\ C16_SingleLineTexts
    /\ written[2].text = CT_B_newline
    /\ file_lines(files.daily.content)[2] = <<"[","2","]"," ","B",".">>
    /\ file_lines(files.daily.content)[3] = <<"[","3","]"," ","A",".">>

\* a text of two lines whose second line starts with "[4] ": two appends, three lines, and
\* the second append numbered 5
C16_IndexJumps ==
    /\ Len(written) = 2
    /\ written[1].text = CT_two_lines
    /\ written[2].text = CT_A
    /\ file_lines(files.daily.content)
          = << <<"[","1","]"," ","D",".">>, <<"[","4","]"," ","E",".">>,
               <<"[","5","]"," ","A",".">> >>

(***************************************************************************)
(* C17 -- completion status and exit code                                  *)
(***************************************************************************)

\* the process has ended after run() returned
C17_Completed == pc = "finished" /\ exit_status # -1

\* the status the output shows: a failed download is printed as a warning, everything else
\* as OK
C17_Reported == {stdout[i].level : i \in DOMAIN stdout}

\* C17 as written: the exit code is a function of (PDF download requested, PDF path
\* obtained): requested and obtained gives 0, requested and not obtained gives 2 with the
\* status failure, not requested gives 0.
C17_Original ==
    C17_Completed =>
        exit_status = (IF args.download_pdf /\ ~pdf.pdf_path THEN 2 ELSE 0)

\* what the code does: a run whose requested download failed ends with exit status 0 and a
\* WARN line
C17_FailedDownloadExitsZero ==
    /\ C17_Completed
    /\ args.download_pdf
    /\ ~pdf.pdf_path
    /\ exit_status = 0
    /\ C17_Reported = {"OK", "WARN"}

\* every completed run ends with exit status 0, and WARN is printed exactly for a requested
\* download that gave no PDF
C17_AlwaysExitsZero ==
    C17_Completed =>
        /\ exit_status = 0
        /\ ("WARN" \in C17_Reported) = (args.download_pdf /\ ~pdf.pdf_path)
        /\ ~args.download_pdf => C17_Reported = {"OK"}

(***************************************************************************)
(* C18 -- the local config merged over config.example.json                 *)
(***************************************************************************)

\* the object of a config file, {} for a file that is not there
C18_Object(file) == IF file.exists THEN file.content ELSE JDict(<<>>)

\* the keys of a JSON value, none for a value that is no object
C18_Keys(v) == IF v.t = "dict" THEN {v.pairs[i][1] : i \in DOMAIN v.pairs} ELSE {}

\* the merged object of the two files of the state
C18_Merged == _deep_merge_dict(C18_Object(files.example), C18_Object(files.local))

\* merged is base with override over it, key by key: a key of override has override's
\* value, unless both values are objects, and then the value is their merge (checked one
\* level down); a key of base alone has base's value; there is no other key
C18_MergedOver(base, override, merged, nested) ==
    /\ C18_Keys(merged) = C18_Keys(base) \cup C18_Keys(override)
    /\ \A k \in C18_Keys(base) \ C18_Keys(override) : dict_get(merged, k) = dict_get(base, k)
    /\ \A k \in C18_Keys(override) :
          IF dict_get(base, k).t = "dict" /\ dict_get(override, k).t = "dict"
          THEN /\ dict_get(merged, k).t = "dict"
               /\ nested[k]
          ELSE dict_get(merged, k) = dict_get(override, k)

\* the settings that are strings, each with the object and the key it is nested under
C18_StringSettings ==
    {<<"llm_base_url", "llm", "base_url">>, <<"llm_api_key", "llm", "api_key">>,
     <<"llm_model", "llm", "model">>, <<"llm_system_prompt", "llm", "system_prompt">>,
     <<"s2_api_key", "providers", "s2_api_key">>,
     <<"openalex_email", "providers", "openalex_email">>}

\* both files hold objects, or are missing, and the config was loaded
C18_Loaded ==
    /\ pc = "done"
    /\ returned.kind = "return"

\* C18: the loaded config is built from the example's object with the local file's object
\* merged over it: every key of the local file has the local value, every key of the
\* example that the local file lacks keeps the example's value, objects under the same key
\* are merged key by key; and a string setting whose merged value is a known placeholder
\* is loaded as the empty string, any other non-empty string value as the value itself
\* without surrounding whitespace.
C18_LocalOverExample ==
    C18_Loaded =>
        /\ C18_MergedOver(
               C18_Object(files.example), C18_Object(files.local), C18_Merged,
               [k \in C18_Keys(C18_Object(files.local)) |->
                   C18_MergedOver(dict_get(C18_Object(files.example), k),
                                  dict_get(C18_Object(files.local), k),
                                  dict_get(C18_Merged, k),
                                  [j \in C18_Keys(dict_get(C18_Object(files.local), k)) |->
                                      FALSE])])
        /\ \A s \in C18_StringSettings :
              LET value == dict_get(dict_or_empty(C18_Merged, s[2]), s[3])
              IN  /\ returned.value[s[1]] \notin {PH_LLM, PH_S2, PH_MAIL}
                  /\ (value.t = "str" /\ strip(value.s) # <<>>) =>
                        returned.value[s[1]]
                           = (IF strip(value.s) \in {PH_LLM, PH_S2, PH_MAIL} THEN <<>>
                              ELSE strip(value.s))

\* the repository's test: the example with placeholders and a local file that sets only
\* llm.api_key
C18_Witness ==
    /\ C18_Loaded
    /\ files.local.exists
    /\ files.local.content = JDict(<< <<"llm", JDict(<< <<"api_key", JStr(CV_real)>> >>)>> >>)
    /\ dict_has(C18_Object(files.example), "providers")
    /\ returned.value = [llm_base_url |-> CV_url, llm_api_key |-> CV_real,
                         llm_model |-> CV_model, llm_disable_reasoning |-> TRUE,
                         llm_system_prompt |-> CV_prompt, s2_api_key |-> <<>>,
                         openalex_email |-> <<>>,
                         source_path |-> <<"config.example.json", "config.local.json">>]

\* a local file that is no JSON object ends the load with RuntimeError
C18_NotAnObject ==
    /\ pc = "done"
    /\ files.local.exists
    /\ files.local.content.t = "str"
    /\ returned.kind = "raise"
    /\ returned.error = "RuntimeError"

(***************************************************************************)
(* C19 -- the identity key of Merge/Dedupe                                 *)
(***************************************************************************)

\* the key as the claim states it: the provider id alone when it is not empty, else the
\* normalized title and the year
C19_ClaimKey(paper) ==
    IF strip(paper.paperId) # <<>> THEN strip(paper.paperId)
    ELSE normalize_text(paper.title) \o <<":", ":">> \o year_str(paper.year)

\* C19 as written: _merge_and_dedupe_papers keeps exactly the first-seen record of every
\* key, the key being the provider id alone when it is not empty and otherwise
\* normalized_title::year, so that id-less records of one year whose titles differ only in
\* case, punctuation or whitespace collapse to the first-seen one.
C19_Original ==
    pc = "done" =>
        returned.value
           = Restrict(papers, {i \in DOMAIN papers :
                                  \A j \in 1..(i - 1) :
                                      C19_ClaimKey(papers[j]) # C19_ClaimKey(papers[i])})

\* what the code does: "Mask R-CNN" and "mask r cnn", both of 2017 and without provider
\* id, are both kept
C19_PunctuationVariantsKept ==
    /\ pc = "done"
    /\ papers = <<Paper(<<>>, T_MaskRCNN, 2017, 0, NoIds, <<>>),
                  Paper(<<>>, T_mask_r_cnn, 2017, 0, NoIds, <<>>)>>
    /\ returned.value = papers

\* titles that differ in case and surrounding whitespace only do collapse
C19_CaseVariantsCollapse ==
    /\ pc = "done"
    /\ papers = <<Paper(<<>>, T_MaskRCNN, 2017, 0, NoIds, <<>>),
                  Paper(<<>>, T_maskrcnn_sp, 2017, 0, NoIds, <<>>)>>
    /\ returned.value = <<papers[1]>>

(***************************************************************************)
(* C20 -- the acronym-variant penalty of the scorer                        *)
(***************************************************************************)

\* the title with every hyphen turned into a space: the same words without a compound
C20_Unhyphenated(title) == [i \in DOMAIN title |-> IF title[i] = "-" THEN " " ELSE title[i]]

\* the sides on which the title holds the keyword inside a hyphenated compound
C20_Sides(kw, title) ==
    (IF HasPrefixedVariant(lower(title), normalize_text(kw)) THEN 1 ELSE 0)
    + (IF HasSuffixedVariant(lower(title), normalize_text(kw)) THEN 1 ELSE 0)

\* the normalized keyword is one token of at most 8 characters
C20_ShortKeyword ==
    /\ normalize_text(keyword) # <<>>
    /\ Len(normalize_text(keyword)) <= 8
    /\ " " \notin Range(normalize_text(keyword))

\* C20 as written: for a short one-token keyword the relevance score of a title that
\* holds the keyword inside a hyphenated compound is 8 lower for each side (x-KEYWORD,
\* KEYWORD-x) than the score of the same title without the compound.
C20_Original ==
    C20_ShortKeyword =>
        \A i \in DOMAIN papers :
            _query_relevance_score(keyword, papers[i].title)
               = _query_relevance_score(keyword, C20_Unhyphenated(papers[i].title))
                 - 8000 * C20_Sides(keyword, papers[i].title)

\* what the code does: "DN-DETR: Accelerate DETR Training" scores 35 for the keyword
\* "DETR", as it does without the hyphen
C20_VariantUnpenalized ==
    /\ C20_ShortKeyword
    /\ pc = "done"
    /\ \E i \in DOMAIN papers :
          /\ papers[i].title = T_DN_DETR
          /\ C20_Sides(keyword, papers[i].title) = 1
          /\ _query_relevance_score(keyword, papers[i].title) = 35000
          /\ _query_relevance_score(keyword, C20_Unhyphenated(papers[i].title)) = 35000

\* no title is penalized: the patterns are searched in the normalized title, which has no
\* hyphen
C20_PenaltyNeverApplies ==
    \A i \in DOMAIN papers :
        /\ ~HasPrefixedVariant(normalize_text(papers[i].title), normalize_text(keyword))
        /\ ~HasSuffixedVariant(normalize_text(papers[i].title), normalize_text(keyword))
        /\ "-" \notin Range(normalize_text(papers[i].title))

(***************************************************************************)
(* C21 -- the relevance base of the scorer                                 *)
(***************************************************************************)

\* a relevance score was returned for a keyword and a title that both have a normal form
C21_Scored ==
    /\ pc = "relevance"
    /\ normalize_text(keyword) # <<>>
    /\ normalize_text(primary.title) # <<>>

C21_Substring == Contains(normalize_text(primary.title), normalize_text(keyword))

C21_Overlap ==
    Cardinality(Tokens(normalize_text(keyword)) \cap Tokens(normalize_text(primary.title)))

\* what the acronym penalty took off the returned score
C21_Penalty ==
    IF Len(normalize_text(keyword)) <= 8 /\ " " \notin Range(normalize_text(keyword))
    THEN (IF HasPrefixedVariant(normalize_text(primary.title), normalize_text(keyword))
          THEN 8000 ELSE 0)
         + (IF HasSuffixedVariant(normalize_text(primary.title), normalize_text(keyword))
            THEN 8000 ELSE 0)
    ELSE 0

\* 15 * (keyword tokens also in the title / keyword tokens), or -10 without overlap
C21_TokenTerm ==
    IF C21_Overlap > 0
    THEN (15000 * C21_Overlap) \div Cardinality(Tokens(normalize_text(keyword)))
    ELSE -10000

\* C21 as written: for a non-empty normalized keyword and title the relevance base is
\* exactly +20 when the normalized keyword is a substring of the normalized title,
\* otherwise 15 * (overlapping keyword tokens / keyword tokens) when a token overlaps,
\* otherwise -10; the cases exclude each other, so the base never exceeds 20.
C21_Original ==
    C21_Scored =>
        /\ returned.value + C21_Penalty = (IF C21_Substring THEN 20000 ELSE C21_TokenTerm)
        /\ returned.value + C21_Penalty <= 20000

\* C21, amended: the relevance base is the sum of two terms, +20 when the normalized
\* keyword is a substring of the normalized title (else 0), and 15 * (overlapping keyword
\* tokens / keyword tokens) when a token overlaps (else -10); it lies between -10 and 35.
C21_BaseIsSumOfSubstringAndTokenTerms ==
    C21_Scored =>
        /\ returned.value + C21_Penalty
              = (IF C21_Substring THEN 20000 ELSE 0) + C21_TokenTerm
        /\ returned.value + C21_Penalty \in -10000..35000

\* "DETR" against "DETR: End-to-End ...": substring and full token overlap give 35
C21_Witness ==
    /\ C21_Scored
    /\ keyword = K_DETR
    /\ primary.title = T_DETR
    /\ C21_Substring
    /\ C21_Overlap = 1
    /\ returned.value = 35000

\* "etr" is inside the word "detr" and is no token of the title: 20 - 10
C21_SubstringWithoutToken ==
    /\ C21_Scored
    /\ keyword = K_etr
    /\ primary.title = T_DETR
    /\ returned.value = 10000

\* "focal DETR" against "Focal Loss ...": half of the tokens, no substring: 7.5
C21_HalfOverlap ==
    /\ C21_Scored
    /\ keyword = K_focal_DETR
    /\ primary.title = T_Focal
    /\ ~C21_Substring
    /\ returned.value = 7500

(***************************************************************************)
(* C22 -- the preprint adjustment of the scorer                            *)
(***************************************************************************)

\* the record without venue and without arXiv id: no preprint for the code or the claim
C22_Published(paper) ==
    [paper EXCEPT !.venue = <<>>,
                  !.externalIds = [k \in DOMAIN paper.externalIds \cap {"DOI", "doi"}
                                      |-> paper.externalIds[k]]]

\* the adjustment in the returned score: what it differs by from the published record's,
\* whose adjustment is +40
C22_Adjustment == returned.value - score_paper(keyword, C22_Published(primary)) + 40000

\* the record has venue arXiv or carries an arXiv id as the adapters emit it
C22_ClaimPreprint ==
    \/ lower(primary.venue) = S_arxiv
    \/ ("ArXiv" \in DOMAIN primary.externalIds /\ primary.externalIds["ArXiv"] # <<>>)

\* C22 as written: score_paper applies -20 to every record that has venue arXiv or
\* carries an arXiv external id under the adapters' key ArXiv, and +40 to every other
\* record; exactly one of the two is applied.
C22_Original ==
    pc = "scored" => C22_Adjustment = (IF C22_ClaimPreprint THEN -20000 ELSE 40000)

\* what the code does: a CVPR-venue record with the external id ArXiv gets +40
C22_ArxivIdScoredAsPublished ==
    /\ pc = "scored"
    /\ primary.venue = V_CVPR
    /\ "ArXiv" \in DOMAIN primary.externalIds
    /\ C22_Adjustment = 40000

\* the code's test is the arXiv venue or the lowercase key arxiv; one adjustment applies
C22_AdjustmentByVenueOrLowercaseKey ==
    pc = "scored" =>
        C22_Adjustment
           = (IF lower(primary.venue) = S_arxiv \/ "arxiv" \in DOMAIN primary.externalIds
              THEN -20000 ELSE 40000)

(***************************************************************************)
(* C23 -- the dedupe key of the validation pool                            *)
(***************************************************************************)

\* two records of one work: the same normalized title and the same year
C23_SameWork(p, q) == normalize_text(p.title) = normalize_text(q.title) /\ p.year = q.year

\* C23 as written: the pool returned by _build_validation_pool never contains two
\* entries with the same normalized title and year, even when the two records carry
\* different provider ids.
C23_Original ==
    pc = "done" =>
        \A a, b \in DOMAIN returned.value :
            a # b => ~C23_SameWork(returned.value[a], returned.value[b])

\* what the code does: two providers' records of "Focal Loss for Dense Object
\* Detection" (2017), with the ids H1 and H2, are both in the pool
C23_ProviderVariantsBothKept ==
    /\ pc = "done"
    /\ \E a, b \in DOMAIN returned.value :
          /\ a # b
          /\ returned.value[a].paperId = <<"H","1">>
          /\ returned.value[b].paperId = <<"H","2">>
          /\ C23_SameWork(returned.value[a], returned.value[b])

\* the pool holds no two entries with the same key, which is the provider id when there
\* is one; records without id of one normalized title and year are one entry
C23_NoTwoEntriesShareKey ==
    pc = "done" =>
        \A a, b \in DOMAIN returned.value :
            a # b => PoolKey(returned.value[a]) # PoolKey(returned.value[b])

(***************************************************************************)
(* C24 -- size and fill of the validation pool                             *)
(***************************************************************************)

\* max(1, N)
C24_Size == IF validation_candidates > 1 THEN validation_candidates ELSE 1

\* the exact-title hits in the order they are added, one per key
C24_Hits == TitlesLoop([keep |-> <<>>, seen |-> {}], papers, proposed_titles, 1).keep

\* the positions of the pool that hold no exact-title hit
C24_Fillers == {k \in DOMAIN returned.value : ~C5_IsHit(returned.value[k])}

\* C24: the pool has at most max(1, N) entries, every entry is a record of the candidate
\* list, no record appears twice, the pool is non-empty whenever the candidate list is;
\* the entries after the exact-title hits are in descending scorer order, a candidate
\* that outscores one of them being left out only if its key was already added; and when
\* the exact-title hits alone reach the size, the pool is the first max(1, N) of them.
C24_PoolSizeAndFill ==
    pc = "done" =>
        /\ Len(returned.value) <= C24_Size
        /\ \A k \in DOMAIN returned.value : returned.value[k] \in Range(papers)
        /\ \A a, b \in DOMAIN returned.value : a # b => returned.value[a] # returned.value[b]
        /\ papers # <<>> => returned.value # <<>>
        /\ \A a, b \in C24_Fillers :
              a < b => score_paper(keyword, returned.value[a])
                          >= score_paper(keyword, returned.value[b])
        /\ \A b \in C24_Fillers : \A i \in DOMAIN papers :
              (/\ papers[i] \notin Range(returned.value)
               /\ score_paper(keyword, papers[i]) > score_paper(keyword, returned.value[b]))
                 => \E k \in DOMAIN returned.value :
                       PoolKey(returned.value[k]) = PoolKey(papers[i])
        /\ Len(C24_Hits) >= C24_Size => returned.value = Take(C24_Hits, C24_Size)

\* a pool of three from the list <<ResNet, survey, hit>>: the hit, then the survey, then
\* ResNet, the survey outscoring ResNet
C24_Witness ==
    /\ pc = "done"
    /\ validation_candidates = 3
    /\ Len(papers) = 3
    /\ papers[1].paperId = <<"F","2">>
    /\ papers[2].paperId = <<"F","1">>
    /\ C5_IsHit(papers[3])
    /\ returned.value = <<papers[3], papers[2], papers[1]>>
    /\ C24_Fillers = {2, 3}
    /\ score_paper(keyword, papers[2]) > score_paper(keyword, papers[1])

\* two exact-title hits and the size 1: the pool is the first hit
C24_HitsCut ==
    /\ pc = "done"
    /\ validation_candidates \in {0, 1}
    /\ Len(C24_Hits) = 2
    /\ returned.value = <<C24_Hits[1]>>

(***************************************************************************)
(* C25 -- the projection of the pool to candidates                         *)
(***************************************************************************)

\* C25: _build_pool_candidates assigns the ids C1, C2, ..., Cn in pool order without gaps
\* or repeats, entry k projects pool record k, and every abstract has at most 800
\* characters; the record the run selects for the id Ck is the k-th record of the pool.
C25_CandidatesMirrorPool ==
    /\ pc = "projected" =>
          /\ DOMAIN returned.value = DOMAIN pool
          /\ \A k \in DOMAIN pool :
                /\ returned.value[k].candidate_id = <<"C">> \o int_str(k)
                /\ returned.value[k].title = strip(pool[k].title)
                /\ returned.value[k].year = pool[k].year
                /\ returned.value[k].venue = strip(pool[k].venue)
                /\ returned.value[k].doi = get_doi(pool[k])
                /\ returned.value[k].citationCount = pool[k].citationCount
                /\ returned.value[k].url = strip(pool[k].url)
                /\ Len(returned.value[k].abstract) <= 800
                /\ returned.value[k].abstract
                      = SubSeq(abstract_of(pool[k]), 1, Len(returned.value[k].abstract))
                /\ Len(abstract_of(pool[k])) <= 800
                      => returned.value[k].abstract = abstract_of(pool[k])
          /\ \A a, b \in DOMAIN pool :
                a # b => returned.value[a].candidate_id # returned.value[b].candidate_id
    /\ pc = "enrich" =>
          \E k \in DOMAIN pool :
              /\ pool_selection.candidate_id = <<"C">> \o int_str(k)
              /\ selected = pool[k]
    /\ (pc = "aborted" /\ selected # IdlePaper) =>
          \E k \in DOMAIN pool :
              /\ pool_selection.candidate_id = <<"C">> \o int_str(k)
              /\ selected = pool[k]

\* the id C2 was answered for a pool of three and the second record is the selected
\* one; its abstract of 801 letters was cut
C25_Witness ==
    /\ pc = "enrich"
    /\ Len(pool) = 3
    /\ pool_selection.candidate_id = <<"C", "2">>
    /\ selected = pool[2]
    /\ selected # pool[1]
    /\ selected # pool[3]
    /\ "abstract" \in DOMAIN pool[2]
    /\ Len(pool[2].abstract) = 801
    /\ Len(returned.value[2].abstract) = 800

\* an abstract over the limit with whitespace at the cut is shorter than the limit
C25_CutAtWhitespace ==
    /\ pc = "projected"
    /\ \E k \in DOMAIN pool :
          /\ "abstract" \in DOMAIN pool[k]
          /\ Len(pool[k].abstract) = 802
          /\ Len(returned.value[k].abstract) = 798

(***************************************************************************)
(* C26 -- tolerant JSON extraction of the Title Proposer                   *)
(***************************************************************************)

\* the stripped text handed to _extract_json
C26_Text == strip(payload.s)

\* the whole text is one JSON object
C26_WholeObject == json_loads(C26_Text).ok /\ json_loads(C26_Text).value.t = "dict"

\* the positions of "{" from which an object can be decoded, and those whose object has
\* the key "titles"
C26_Decodable ==
    {i \in DOMAIN C26_Text : C26_Text[i] = "{" /\ scan_value(C26_Text, i).ok}

C26_Titled ==
    {i \in C26_Decodable :
        \E k \in DOMAIN scan_value(C26_Text, i).value.pairs :
            scan_value(C26_Text, i).value.pairs[k][1] = KEY_titles}

C26_First(S) == CHOOSE i \in S : \A j \in S : i <= j

\* C26: if the whole content parses as a JSON object, _extract_json returns it; otherwise
\* objects are decoded from each "{" in left-to-right order and the result is the first
\* decoded object that has a "titles" key if any has one, else the first decoded object;
\* if no object can be decoded the call fails with LLMTitleError.
C26_ExtractPrefersTitledObject ==
    pc = "extracted" =>
        IF C26_WholeObject THEN returned = Return(json_loads(C26_Text).value)
        ELSE IF C26_Titled # {}
             THEN returned = Return(scan_value(C26_Text, C26_First(C26_Titled)).value)
        ELSE IF C26_Decodable # {}
             THEN returned = Return(scan_value(C26_Text, C26_First(C26_Decodable)).value)
        ELSE returned.kind = "raise" /\ returned.error = "LLMTitleError"

\* two objects in prose, the second one with "titles": the second is returned
C26_Witness ==
    /\ pc = "extracted"
    /\ ~C26_WholeObject
    /\ Cardinality(C26_Decodable) = 2
    /\ Cardinality(C26_Titled) = 1
    /\ C26_First(C26_Titled) > C26_First(C26_Decodable)
    /\ returned = Return(scan_value(C26_Text, C26_First(C26_Titled)).value)
    /\ returned # Return(scan_value(C26_Text, C26_First(C26_Decodable)).value)

\* a text without any decodable object raises LLMTitleError
C26_NothingDecodable ==
    /\ pc = "extracted"
    /\ C26_Text # <<>>
    /\ C26_Decodable = {}
    /\ returned.kind = "raise"

\* a whole object without "titles" is returned although an object inside it has the key
C26_WholeWins ==
    /\ pc = "extracted"
    /\ C26_WholeObject
    /\ C26_Titled # {}
    /\ 1 \notin C26_Titled
    /\ returned = Return(json_loads(C26_Text).value)

(***************************************************************************)
(* C27 -- merged PDF URLs and citation count                               *)
(***************************************************************************)

\* the backup's URLs that the primary does not hold in any case
C27_NewFromBackup ==
    KeepAt(papers[1].pdfUrls,
           [i \in DOMAIN papers[1].pdfUrls |->
               \A k \in DOMAIN primary.pdfUrls :
                   lower(primary.pdfUrls[k]) # lower(papers[1].pdfUrls[i])],
           1)

C28_AtCall == heap_at_call(primary, papers)

\* the record a call of _merge_with_backup returned, as a value
C28_Merged == deref(heap, returned.value)

\* C28 (frame_effect): after _merge_and_dedupe_papers, _build_validation_pool,
\* _build_pool_candidates, pick_best_candidate, _pick_best_backup_match or
\* _merge_with_backup has returned, every object of the call (each input record, its
\* externalIds dict, its pdfUrls and authors lists, and the input list) is as it was at the
\* call; _merge_with_backup with a backup returns a dict that did not exist at the call,
\* and with no backup it returns the dict primary and allocates nothing.
C28_InputsUnchanged ==
    pc # "start" =>
        /\ \A r \in DOMAIN C28_AtCall : heap[r] = C28_AtCall[r]
        /\ deref(heap, primary_ref) = primary
        /\ deref_list(heap, papers_ref) = papers
        /\ (pc = "merged" /\ papers # <<>>) =>
               /\ returned.value \notin DOMAIN C28_AtCall
               /\ C28_Merged = _merge_with_backup(primary, Backup(papers[1]))
        /\ (pc = "merged" /\ papers = <<>>) =>
               /\ returned.value = primary_ref
               /\ heap = C28_AtCall

\* a merge with a backup returned a record that differs from primary in its identifiers
\* and its PDF URLs, on a new dict
C28_Witness ==
    /\ pc = "merged"
    /\ papers # <<>>
    /\ returned.value # primary_ref
    /\ C28_Merged.externalIds # primary.externalIds
    /\ C28_Merged.pdfUrls # primary.pdfUrls
    /\ C28_Merged.citationCount # primary.citationCount

\* a pool of two records was built: a new list that refers to the input records
C28_PoolSharesRecords ==
    /\ pc = "pooled"
    /\ Len(heap[returned.value]) = 2
    /\ \A k \in 1..2 : heap[returned.value][k] \in Range(heap[papers_ref])

(***************************************************************************)
(* C29: a failed PDF download leaves the citation in place.                *)
(***************************************************************************)

\* how often run() has called download_pdf_for_paper
C29_Downloads == Cardinality({i \in DOMAIN calls : calls[i] = "download_pdf_for_paper"})

\* how many citations the run has appended
C29_Citations == Cardinality({i \in DOMAIN written : written[i].file = "citation"})

\* a download has saved its file
C29_Succeeded == \E i \in DOMAIN written : written[i].file = "pdf"

\* the error text mentions 418, non-pdf or no pdf
C29_Mentions(error_text) ==
    \/ Contains(lower(error_text), S_418)
    \/ Contains(lower(error_text), S_non_pdf)
    \/ Contains(lower(error_text), S_no_pdf)

\* C29 (temporal): a run that reaches the PDF step goes on to return with exactly one
\* citation appended, whatever the downloads meet; download_pdf_for_paper is called at most
\* twice, the second time only from the except branch, with the arXiv fallback enabled and
\* a first error text that mentions 418, non-pdf or no pdf; and a run that asked for the
\* PDF returns no pdf_path together with a non-empty pdf_error exactly when no download
\* saved a file, and otherwise a pdf_path and no pdf_error.
C29_DownloadFailureKeepsCitation ==
    /\ [](C29_Downloads <= 2 /\ C29_Citations <= 1)
    /\ [](pc = "fallback" =>
             /\ C29_Downloads = 1
             /\ args.pdf_arxiv_fallback
             /\ C29_Mentions(pdf.pdf_error))
    /\ [][C29_Downloads' = 2 => (C29_Downloads = 2 \/ pc = "fallback")]_vars
    /\ (pc = "pdf") ~> (pc = "finished" /\ C29_Citations = 1)
    /\ []((pc = "finished" /\ args.download_pdf) =>
             /\ (~returned.value.pdf_path /\ returned.value.pdf_error # <<>>) <=> ~C29_Succeeded
             /\ returned.value.pdf_path => returned.value.pdf_error = <<>>
             /\ C29_Downloads >= 1)

\* both downloads failed and the run returned with its citation and the second error
C29_Witness ==
    /\ pc = "finished"
    /\ C29_Downloads = 2
    /\ ~C29_Succeeded
    /\ C29_Citations = 1
    /\ ~returned.value.pdf_path
    /\ returned.value.pdf_error # <<>>

\* the first download failed, the fallback's download saved the file
C29_SecondSaved ==
    /\ pc = "finished"
    /\ C29_Downloads = 2
    /\ C29_Succeeded
    /\ returned.value.pdf_path

\* the first download timed out with the fallback enabled: no second download
C29_NoFallbackOnTimeout ==
    /\ pc = "finished"
    /\ args.pdf_arxiv_fallback
    /\ C29_Downloads = 1
    /\ returned.value.pdf_error = M_timed_out

(***************************************************************************)
(* C30: the title-similarity gate of the LLM mode.                         *)
(***************************************************************************)

\* the position in the pool of the candidate the selector named, 0 when it named none
C30_Index(selection) == selected_index(_build_pool_candidates(pool), selection.candidate_id)

\* similarity >= threshold, the similarity a quotient and the threshold in thousandths
C30_AtLeast(similarity, min_milli) == similarity[1] * 1000 >= min_milli * similarity[2]

\* the similarity between the title of the pool record at idx and the first proposed title
C30_Similarity(idx) == title_similarity(pool[idx].title, proposed_titles[1])

\* a citation has been appended
C30_Cited == \E i \in DOMAIN written : written[i].file = "citation"

\* the gate: with a valid candidate id the run goes on to the enrichment exactly when the
\* similarity is at least the threshold, and otherwise ends with SystemExit; a run that
\* ended so has appended no citation, and a citation is appended only past the gate
C30_Gate ==
    /\ [][(pc = "projected" /\ C30_Index(pool_selection') # 0) =>
             /\ pc' = "enrich" <=>
                    C30_AtLeast(C30_Similarity(C30_Index(pool_selection')),
                                args.min_title_similarity)
             /\ pc' # "enrich" =>
                    /\ pc' = "aborted"
                    /\ returned'.kind = "raise"
                    /\ returned'.error = "SystemExit"]_vars
    /\ [](pc = "aborted" => ~C30_Cited)
    /\ []((C30_Cited \/ pc \in {"enrich", "pdf", "fallback", "cite", "finished"}) =>
             /\ C30_Index(pool_selection) # 0
             /\ C30_AtLeast(C30_Similarity(C30_Index(pool_selection)),
                            args.min_title_similarity))

\* the selected title and the first proposed title are equal after normalization
C30_EqualNormalized(idx) ==
    normalize_text(pool[idx].title) = normalize_text(proposed_titles[1])

C30_GateAndNonEmptyEqualPass ==
    /\ C30_Gate
    /\ [][(/\ pc = "projected"
           /\ C30_Index(pool_selection') # 0
           /\ C30_EqualNormalized(C30_Index(pool_selection'))
           /\ normalize_text(proposed_titles[1]) # <<>>) =>
             /\ C30_Similarity(C30_Index(pool_selection')) = <<1, 1>>
             /\ pc' = "enrich"]_vars

\* the selector named a record whose title is the first proposed title, neither with an
\* ASCII letter or digit, and the run ended with SystemExit
C30_EqualTitlesRejected ==
    /\ pc = "aborted"
    /\ pool_selection # NoSelection
    /\ C30_Index(pool_selection) # 0
    /\ pool[C30_Index(pool_selection)].title = proposed_titles[1]
    /\ returned.kind = "raise"
    /\ returned.error = "SystemExit"

\* a valid selection below the threshold ended the run
C30_BelowThreshold ==
    /\ pc = "aborted"
    /\ pool_selection # NoSelection
    /\ C30_Index(pool_selection) # 0
    /\ normalize_text(proposed_titles[1]) # <<>>
    /\ ~C30_AtLeast(C30_Similarity(C30_Index(pool_selection)), args.min_title_similarity)

\* titles that differ in case and punctuation passed the threshold 1.0 and were cited
C30_PassedAtOne ==
    /\ pc = "finished"
    /\ args.min_title_similarity = 1000
    /\ C30_Cited
    /\ selected.title # proposed_titles[1]

=============================================================================
